---------------------------- MODULE Spec2Model ----------------------------
(***************************************************************************)
(* Model of the resilience code of the fitness web application:            *)
(*   - safeSupabaseQuery and categorizeError   (src/src/lib/supabase.ts)   *)
(*   - signOut and its timeout race            (src/src/hooks/useAuth.tsx, *)
(*                                  src/unnamed/part_003, part_002)        *)
(*   - RoutesPage.fetchRoutes pre-flight       (src/unnamed/part_009)      *)
(*   - diagnoseSupabaseConnectivity   (src/src/utils/supabaseDiagnostics.ts)*)
(*   - clearAllAuthCredentials    (src/src/components/Auth/AuthCleaner.tsx) *)
(*   - SupabaseHealthMonitor                   (src/src/lib/supabase.ts)   *)
(*                                                                         *)
(* A JavaScript string is a sequence of text chunks.  The chunks are cut   *)
(* so that every substring or prefix the code tests for (includes,         *)
(* startsWith, ===) falls on chunk boundaries; includes and startsWith are *)
(* then computed on the sequences.                                         *)
(***************************************************************************)
EXTENDS Integers, Sequences, FiniteSets, Bags, TLC

VARIABLES
  \* ---- one call of safeSupabaseQuery ----
  qpc,          \* "idle" | "await" | "backoff" | "done" | "rejected"
  maxRetries,   \* the maxRetries argument
  attempt,      \* the loop variable
  lastError,    \* the local lastError
  result,       \* what the returned promise settled with
  timer,        \* the pending backoff setTimeout (its delay in ms), 0 when none
  invocations,  \* how many times queryFn has been called
  inFlight,     \* queryFn promises that have not settled
  opHung,       \* the queryFn promise in flight will never settle
  delays,       \* the backoff delays that have elapsed, in order
  history,      \* the outcome of every settled attempt, in order
  lastCause,    \* the message of the failure of the most recent failed attempt
  lastFailure,  \* of that failure: its code is an HTTP status in [400, 500);
                \* it matches none of the rules of categorizeError
  \* ---- one call of signOut ----
  version,      \* "race" (useAuth.tsx) | "manual" (part_003) | "plain" (part_002)
  sopc,         \* "idle" | "awaitRace" | "done"
  user, session, profile,
  signOutLoading, connectionError, lastSignOutAttempt, soResult,
  localStorage, sessionStorage,
  remote,       \* the promise of supabase.auth.signOut()
  race,         \* the promise signOut awaits
  soTimer,      \* "none" | "armed" | "fired" | "cleared"
  winner,       \* which of the two settled first: "none" | "remote" | "timer"
  storageStep,  \* how step 2 ended: "none" | "ok" | "throwLocal" | "throwSession"
  \* ---- RoutesPage.fetchRoutes and diagnoseSupabaseConnectivity ----
  networkStatus,   \* the status useNetwork() gives the RoutesPage
  frpc,            \* calls of database.getFitnessRoutes() that are awaited
  loading, retrying, fetchError, routes,
  frCaught,        \* the error the catch block of fetchRoutes last caught
  getRoutesCalls,  \* how many times database.getFitnessRoutes() was called
  fetchRuns,       \* how many times fetchRoutes was called
  navigatorOnLine, \* navigator.onLine
  envUrl, envKey,  \* VITE_SUPABASE_URL, VITE_SUPABASE_ANON_KEY
  dgpc,            \* "idle" | "fetching"
  dgResult,        \* what diagnoseSupabaseConnectivity last returned
  dgFetches,       \* how many times it called fetch
  dgRuns,          \* how many times it was called
  \* ---- AuthCleaner.clearAllAuthCredentials ----
  clpc,            \* "idle" | "local" | "session" | "done"
  clUser,          \* the user the AuthCleaner got from useAuth() is non-null
  clLocal,         \* the keys of localStorage, in the order key(i) gives them
  clSession,       \* the keys of sessionStorage, in the order key(i) gives them
  cli,             \* the loop variable i
  clRemoved,       \* localStorageKeys / sessionStorageKeys: the keys removed
  isClearing, isComplete,
  \* ---- SupabaseHealthMonitor ----
  healthStatus,     \* 'healthy' | 'degraded' | 'down'
  lastHealthCheck,  \* "null" | "date"
  healthListeners,  \* the Set's entries in insertion order; 0 is a deleted entry
  hmpc,             \* "idle" | "fetching" | "notifying"
  hmIdx,            \* entries Set.prototype.forEach has gone past
  hmIsHealthy,      \* the local isHealthy of the running checkHealth
  hmReturn,         \* what the last checkHealth() promise settled with
  hmInvoked,        \* how often each callback was invoked by the notification
  hmStayed,         \* callbacks registered since the notification started
  hmThrew,          \* callbacks that threw during the notification
  hmMutations,      \* registrations and removals made from inside callbacks
  hmHandles,        \* callbacks for which an unsubscribe function was returned
  hmGone,           \* callbacks unsubscribed and not registered again since
  hmLastOp,         \* the last operation on the monitor, its callback, and
                    \* whether it repeats an unsubscribe already made
  \* ---- one call of categorizeError ----
  cepc,             \* "idle" | "done"
  ceInput,          \* the error argument
  ceOutcome,        \* "none" | "returned" | "threw"
  ceOutput,         \* the SupabaseError returned, or the TypeError thrown
  \* ---- several calls of safeSupabaseQuery in flight together ----
  calls,            \* per call: its position, maxRetries, and the locals
                    \* attempt and lastError, its return value, and the
                    \* events it has seen so far
  \* ---- several checkHealth() calls in flight together ----
  probes,           \* per call: "idle" | "fetching" | "done", what its fetch
                    \* ended with, and the value the call returned
  probeDone,        \* the calls that have completed, in completion order
  \* ---- the AuthProvider: initialisation, auth events, sign-out calls ----
  mounted,          \* the flag of the effect, false once the provider unmounted
  authLoading,      \* the loading state of the provider
  initpc,           \* initializeAuth: "getSession" | "fetchProfile" | "done"
  fetches,          \* the bag of fetchProfile calls in flight: who awaits
                    \* each, for which event, for which user
  authEvents,       \* auth-state-change events delivered so far
  soCalls           \* per signOut() call: "idle" | "awaiting" | the stage returned

qvars == <<qpc, maxRetries, attempt, lastError, result, timer, invocations,
           inFlight, opHung, delays, history, lastCause, lastFailure>>
sovars == <<version, sopc, user, session, profile, signOutLoading,
            connectionError, lastSignOutAttempt, soResult, localStorage,
            sessionStorage, remote, race, soTimer, winner, storageStep>>
frvars == <<networkStatus, frpc, loading, retrying, fetchError, routes,
            frCaught, getRoutesCalls, fetchRuns>>
dgvars == <<navigatorOnLine, envUrl, envKey, dgpc, dgResult, dgFetches, dgRuns>>
clvars == <<clpc, clUser, clLocal, clSession, cli, clRemoved, isClearing, isComplete>>
hmvars == <<healthStatus, lastHealthCheck, healthListeners, hmpc, hmIdx,
            hmIsHealthy, hmReturn, hmInvoked, hmStayed, hmThrew, hmMutations,
            hmHandles, hmGone, hmLastOp>>
cevars == <<cepc, ceInput, ceOutcome, ceOutput>>
ccvars == <<calls>>
pbvars == <<probes, probeDone>>
auvars == <<mounted, authLoading, initpc, fetches, authEvents, soCalls>>
vars == <<qvars, sovars, frvars, dgvars, clvars, hmvars, cevars,
         ccvars,
         pbvars,
         auvars>>

----------------------------------------------------------------------------
(* Bounds of the model *)
MaxRetriesBound == 3
MaxRuns == 2
MaxKeys == 3
NumCallbacks == 3
MaxMutations == 2

(* Program constants *)
BaseDelayMs == 1000

----------------------------------------------------------------------------
(* JavaScript strings as chunk sequences *)

Includes(s, pat) ==
  \E i \in 0..(Len(s) - Len(pat)) : SubSeq(s, i + 1, i + Len(pat)) = pat

StartsWith(s, pat) ==
  Len(s) >= Len(pat) /\ SubSeq(s, 1, Len(pat)) = pat

RECURSIVE Pow2(_)
Pow2(n) == IF n <= 0 THEN 1 ELSE 2 * Pow2(n - 1)

(* A JavaScript value held in a property: undefined, a string or a number. *)
JsUndef == [t |-> "undef", s |-> <<>>, n |-> 0]
JsStr(s) == [t |-> "str", s |-> s, n |-> 0]
JsNum(n) == [t |-> "num", s |-> <<>>, n |-> n]
(* an object held in a property (details.originalError of the default case) *)
JsObject == [t |-> "obj", s |-> <<>>, n |-> 0]

(* v is falsy: undefined, '' or 0 *)
Falsy(v) == v.t = "undef" \/ (v.t = "str" /\ v.s = <<>>) \/ (v.t = "num" /\ v.n = 0)

(* v?.includes(pat): undefined short-circuits; only a string has includes *)
OptIncludes(v, pat) == v.t = "str" /\ Includes(v.s, pat)
(* v?.startsWith(pat) *)
OptStartsWith(v, pat) == v.t = "str" /\ StartsWith(v.s, pat)
(* v?.method(...) throws "is not a function": v is neither nullish nor a string *)
OptCallThrows(v) == v.t = "num"
(* v === 'literal' *)
StrictEq(v, lit) == v.t = "str" /\ v.s = lit

----------------------------------------------------------------------------
(* Error values.  kind "undefined" is null/undefined, "primitive" a truthy  *)
(* non-object (throw 'boom'): every property read on it gives undefined.    *)
(* isRetryable and originalError are the SupabaseError fields; a raw error  *)
(* does not have them (FALSE / undefined).  originalError stands for        *)
(* details.originalError.                                                   *)

MkError(kind, message, name, code, isRetryable, originalError) ==
  [kind |-> kind, message |-> message, name |-> name, code |-> code,
   isRetryable |-> isRetryable, originalError |-> originalError]

ErrUndefined == MkError("undefined", JsUndef, "undefined", JsUndef, FALSE, JsUndef)
ErrPrimitive == MkError("primitive", JsUndef, "undefined", JsUndef, FALSE, JsUndef)

(* new SupabaseError(message, code, details, isRetryable) *)
SupabaseError(message, code, originalError, isRetryable) ==
  MkError("object", message, "SupabaseError", code, isRetryable, originalError)

(* The TypeError "x.includes / x.startsWith is not a function" *)
NotAFunctionError ==
  MkError("object", JsStr(<<"is not a function">>), "TypeError", JsUndef, FALSE, JsUndef)

(* the rules of categorizeError, in the order the code tests them *)
NetworkRule(e) ==
  \/ OptIncludes(e.message, <<"Failed to fetch">>)
  \/ OptIncludes(e.message, <<"ERR_NAME_NOT_RESOLVED">>)
  \/ OptIncludes(e.message, <<"Network Error">>)
  \/ e.name = "TypeError"

AuthRule(e) ==
  \/ OptIncludes(e.message, <<"JWT">>)
  \/ OptIncludes(e.message, <<"invalid_grant">>)
  \/ StrictEq(e.code, <<"invalid_credentials">>)

PermissionRule(e) ==
  \/ StrictEq(e.code, <<"42501">>)
  \/ OptIncludes(e.message, <<"permission denied">>)

DuplicateRule(e) == StrictEq(e.code, <<"23505">>)

ForeignKeyRule(e) == StrictEq(e.code, <<"23503">>)

ServerRule(e) ==
  \/ OptStartsWith(e.code, <<"5">>)
  \/ OptIncludes(e.message, <<"500">>)

(* categorizeError(e) throws a TypeError instead of returning: the first    *)
(* message?.includes on a non-string message, or code?.startsWith on a      *)
(* non-string code once no earlier rule has returned.                       *)
CategorizeThrows(e) ==
  /\ e.kind # "undefined"
  /\ \/ OptCallThrows(e.message)
     \/ /\ ~NetworkRule(e) /\ ~AuthRule(e) /\ ~PermissionRule(e)
        /\ ~DuplicateRule(e) /\ ~ForeignKeyRule(e)
        /\ OptCallThrows(e.code)

(* the value categorizeError(e) returns when it does not throw *)
categorizeError(e) ==
  IF e.kind = "undefined"
    THEN SupabaseError(JsStr(<<"Unknown error occurred">>),
                       JsStr(<<"UNKNOWN_ERROR">>), JsUndef, FALSE)
  ELSE IF NetworkRule(e)
    THEN SupabaseError(JsStr(<<"Network connectivity issue.">>),
                       JsStr(<<"NETWORK_ERROR">>), e.message, TRUE)
  ELSE IF AuthRule(e)
    THEN SupabaseError(JsStr(<<"Authentication failed.">>),
                       JsStr(<<"AUTH_ERROR">>), e.message, FALSE)
  ELSE IF PermissionRule(e)
    THEN SupabaseError(JsStr(<<"Permission denied.">>),
                       JsStr(<<"PERMISSION_ERROR">>), e.message, FALSE)
  ELSE IF DuplicateRule(e)
    THEN SupabaseError(JsStr(<<"Data already exists.">>),
                       JsStr(<<"DUPLICATE_ERROR">>), e.message, FALSE)
  ELSE IF ForeignKeyRule(e)
    THEN SupabaseError(JsStr(<<"Related data not found.">>),
                       JsStr(<<"FOREIGN_KEY_ERROR">>), e.message, FALSE)
  ELSE IF ServerRule(e)
    THEN SupabaseError(JsStr(<<"Server error occurred.">>),
                       JsStr(<<"SERVER_ERROR">>), e.message, TRUE)
  ELSE SupabaseError(
         IF Falsy(e.message) THEN JsStr(<<"An unexpected error occurred">>)
                             ELSE e.message,
         IF Falsy(e.code) THEN JsStr(<<"UNKNOWN_ERROR">>) ELSE e.code,
         JsObject, FALSE)

(* The failures an operation can deliver *)
Messages ==
  { JsUndef, JsNum(42), JsStr(<<>>),
    JsStr(<<"TypeError: ", "Failed to fetch">>),
    JsStr(<<"JWT", " expired">>),
    JsStr(<<"permission denied", " for table fitness_routes">>),
    JsStr(<<"Request failed with status ", "500">>),
    JsStr(<<"boom">>) }

Codes ==
  { JsUndef, JsNum(503), JsNum(401), JsStr(<<"4", "01">>),
    JsStr(<<"invalid_credentials">>), JsStr(<<"42501">>), JsStr(<<"23505">>),
    JsStr(<<"23503">>), JsStr(<<"5", "03">>), JsStr(<<"PGRST116">>) }

Names == {"Error", "TypeError"}

ErrorObjects ==
  { MkError("object", m, n, c, FALSE, JsUndef) : m \in Messages, n \in Names, c \in Codes }

(* the failures the operation handed to safeSupabaseQuery delivers: for     *)
(* every rule outcome (retryable, not retryable, categorizeError throwing)  *)
(* a string code, a numeric code, no code, no message, a non-string message *)
OpMessages ==
  { JsUndef, JsNum(42),
    JsStr(<<"TypeError: ", "Failed to fetch">>),
    JsStr(<<"JWT", " expired">>),
    JsStr(<<"boom">>) }

OpCodes ==
  { JsUndef, JsNum(503), JsStr(<<"4", "01">>), JsStr(<<"42501">>), JsStr(<<"5", "03">>),
    JsStr(<<"PGRST116">>) }

OpErrorObjects ==
  { MkError("object", m, n, c, FALSE, JsUndef) : m \in OpMessages, n \in Names, c \in OpCodes }

(* what result.error can be when it is truthy *)
ReturnedErrors == OpErrorObjects \cup {ErrPrimitive}
(* what queryFn can throw or reject with *)
ThrownErrors == OpErrorObjects \cup {ErrPrimitive, ErrUndefined}

Data == {"rowsA", "rowsB"}

----------------------------------------------------------------------------
(* safeSupabaseQuery(queryFn, context, maxRetries)                          *)

NoResult == [state |-> "none", data |-> "null", hasError |-> FALSE, error |-> ErrUndefined]
(* return { data, error: null } *)
ResolvedData(d) == [state |-> "resolved", data |-> d, hasError |-> FALSE, error |-> ErrUndefined]
(* return { data: null, error } *)
ResolvedError(e) == [state |-> "resolved", data |-> "null", hasError |-> TRUE, error |-> e]
(* the async function throws: its promise rejects with e *)
Rejected(e) == [state |-> "rejected", data |-> "null", hasError |-> TRUE, error |-> e]

(* how the classification rules treat a failure *)
Classify(e) ==
  IF CategorizeThrows(e) THEN "unclassifiable"
  ELSE IF categorizeError(e).isRetryable THEN "retryable" ELSE "terminal"

Outcome(via, cls, data) == [via |-> via, cls |-> cls, data |-> data]

(* the code of a failure is an HTTP status in [400, 500), as a number or    *)
(* as a string                                                              *)
HasClientStatus(e) ==
  \/ e.code.t = "num" /\ e.code.n \in 400..499
  \/ e.code.t = "str" /\ e.code.s = <<"4", "01">>

(* the code of a failure is an HTTP status >= 500, as a number or a string *)
HasServerStatus(e) ==
  \/ e.code.t = "num" /\ e.code.n >= 500
  \/ e.code.t = "str" /\ e.code.s = <<"5", "03">>

(* a failure none of the rules of categorizeError is written for *)
MatchesNoRule(e) ==
  /\ ~NetworkRule(e) /\ ~AuthRule(e) /\ ~PermissionRule(e)
  /\ ~DuplicateRule(e) /\ ~ForeignKeyRule(e) /\ ~ServerRule(e)
  /\ ~HasServerStatus(e)

NoFailure == [client |-> FALSE, unmatched |-> FALSE]
Shape(e) == [client |-> HasClientStatus(e), unmatched |-> MatchesNoRule(e)]

(* attempt <= maxRetries, the loop test *)
LoopContinuesOffByOne(a) == a < maxRetries
LoopContinues(a) == a <= maxRetries

(* attempt === maxRetries *)
IsLastAttemptNever(a) == FALSE
IsLastAttempt(a) == a = maxRetries

(* Math.pow(2, attempt) * 1000 *)
BackoffDelayConstant(a) == 2 * BaseDelayMs
BackoffDelay(a) == Pow2(a) * BaseDelayMs

(* const finalError = categorizeError(lastError, context); return {...}     *)
(* categorizeError runs outside the try block here: what it throws rejects  *)
(* the promise safeSupabaseQuery returned.                                  *)
FinalReturn(e) ==
  IF CategorizeThrows(e)
    THEN qpc' = "rejected" /\ result' = Rejected(NotAFunctionError)
    ELSE qpc' = "done" /\ result' = ResolvedError(categorizeError(e))

(* the loop test and, when it passes, the call queryFn() of this attempt;   *)
(* the promise it returns may be one that never settles                     *)
EnterAttempt(a, le) ==
  /\ attempt' = a
  /\ IF LoopContinues(a)
       THEN /\ invocations' = invocations + 1
            /\ inFlight' = inFlight + 1
            /\ opHung' \in BOOLEAN
            /\ qpc' = "await"
            /\ result' = result
       ELSE /\ FinalReturn(le)
            /\ UNCHANGED <<invocations, inFlight, opHung>>

(* await new Promise(resolve => setTimeout(resolve, delay)) *)
ScheduleRetryNoAwait ==
  /\ timer' = BackoffDelay(attempt)
  /\ qpc' = "await"
  /\ attempt' = attempt + 1
  /\ invocations' = invocations + 1
  /\ inFlight' = inFlight
  /\ opHung' \in BOOLEAN
  /\ result' = result
ScheduleRetry ==
  /\ timer' = BackoffDelay(attempt)
  /\ qpc' = "backoff"
  /\ UNCHANGED <<result, attempt, invocations>>
  /\ inFlight' = inFlight - 1
  /\ opHung' = FALSE

(* the catch block *)
Catch(e) ==
  /\ lastError' = e
  /\ IF IsLastAttempt(attempt)
       THEN /\ FinalReturn(e)
            /\ UNCHANGED <<timer, attempt, invocations>>
            /\ inFlight' = inFlight - 1
            /\ opHung' = FALSE
       ELSE ScheduleRetry

(* return { data: result.data, error: null } *)
ReturnSuccessThenRetry(d) ==
  /\ qpc' = "backoff"
  /\ result' = ResolvedData(d)
  /\ timer' = BackoffDelay(attempt)
  /\ UNCHANGED <<lastError, attempt, invocations>>
  /\ inFlight' = inFlight - 1
  /\ opHung' = FALSE
ReturnSuccess(d) ==
  /\ qpc' = "done"
  /\ result' = ResolvedData(d)
  /\ UNCHANGED <<lastError, timer, attempt, invocations>>
  /\ inFlight' = inFlight - 1
  /\ opHung' = FALSE

(* the branch  if (result.error) { ... }  *)
OnReturnedError(e) ==
  IF CategorizeThrows(e)
    THEN Catch(NotAFunctionError)
    ELSE LET supabaseError == categorizeError(e) IN
         IF ~supabaseError.isRetryable \/ IsLastAttempt(attempt)
           THEN /\ qpc' = "done"
                /\ result' = ResolvedError(supabaseError)
                /\ UNCHANGED <<lastError, timer, attempt, invocations>>
                /\ inFlight' = inFlight - 1
                /\ opHung' = FALSE
           ELSE /\ lastError' = supabaseError
                /\ ScheduleRetry

(* safeSupabaseQuery is called: it runs up to its first await *)
Call ==
  /\ qpc = "idle"
  /\ EnterAttempt(1, lastError)
  /\ UNCHANGED <<maxRetries, lastError, timer, delays, history, lastCause, lastFailure>>
  /\ UNCHANGED <<sovars, frvars, dgvars, clvars, hmvars, cevars, ccvars, pbvars, auvars>>

(* queryFn's promise fulfils with { data, error: null } *)
QuerySucceeds ==
  /\ qpc = "await" /\ ~opHung
  /\ \E d \in Data :
       /\ ReturnSuccess(d)
       /\ history' = Append(history, Outcome("ok", "success", d))
  /\ UNCHANGED <<maxRetries, delays, lastCause, lastFailure>>
  /\ UNCHANGED <<sovars, frvars, dgvars, clvars, hmvars, cevars, ccvars, pbvars, auvars>>

(* queryFn's promise fulfils with { data: null, error } *)
QueryReturnsError ==
  /\ qpc = "await" /\ ~opHung
  /\ \E e \in ReturnedErrors :
       /\ OnReturnedError(e)
       /\ history' = Append(history, Outcome("returned", Classify(e), "null"))
       /\ lastCause' = e.message
       /\ lastFailure' = Shape(e)
  /\ UNCHANGED <<maxRetries, delays>>
  /\ UNCHANGED <<sovars, frvars, dgvars, clvars, hmvars, cevars, ccvars, pbvars, auvars>>

(* queryFn throws, or its promise rejects *)
QueryThrows ==
  /\ qpc = "await" /\ ~opHung
  /\ \E e \in ThrownErrors :
       /\ Catch(e)
       /\ history' = Append(history, Outcome("thrown", Classify(e), "null"))
       /\ lastCause' = e.message
       /\ lastFailure' = Shape(e)
  /\ UNCHANGED <<maxRetries, delays>>
  /\ UNCHANGED <<sovars, frvars, dgvars, clvars, hmvars, cevars, ccvars, pbvars, auvars>>

(* the backoff timer fires: the loop increments attempt and goes on *)
BackoffElapsed ==
  /\ qpc = "backoff"
  /\ delays' = Append(delays, timer)
  /\ timer' = 0
  /\ EnterAttempt(attempt + 1, lastError)
  /\ UNCHANGED <<maxRetries, lastError, history, lastCause, lastFailure>>
  /\ UNCHANGED <<sovars, frvars, dgvars, clvars, hmvars, cevars, ccvars, pbvars, auvars>>

NextQuery == Call \/ QuerySucceeds \/ QueryReturnsError \/ QueryThrows \/ BackoffElapsed

----------------------------------------------------------------------------
(* Properties of safeSupabaseQuery, checked under SpecQuery *)

QueryFinished == qpc \in {"done", "rejected"}

FailedOn(k, cls) == k \in 1..Len(history) /\ history[k].cls = cls

(* C1: an operation that fails with a retryable error on every attempt,    *)
(* returned or thrown, is invoked exactly maxRetries times and no more:    *)
(* the call is over exactly when the maxRetries-th failure has arrived.    *)
C1_BoundedAttempts ==
  /\ invocations <= maxRetries
  /\ (\A k \in 1..Len(history) : history[k].cls = "retryable")
       => /\ QueryFinished => (invocations = maxRetries /\ Len(history) = maxRetries)
          /\ (qpc # "idle" /\ Len(history) = maxRetries) => QueryFinished

C1_Witness ==
  /\ qpc = "done" /\ maxRetries = 3 /\ invocations = 3
  /\ \A k \in 1..Len(history) : history[k].cls = "retryable"
  /\ \E k \in 1..Len(history) : history[k].via = "returned"
  /\ \E k \in 1..Len(history) : history[k].via = "thrown"

(* C2: once an attempt k has succeeded, the call has returned that value,  *)
(* k is the last invocation, and only the k-1 delays before it were taken. *)
C2_SuccessShortCircuits ==
  \A k \in 1..Len(history) :
    history[k].cls = "success"
      => /\ k = Len(history)
         /\ invocations = k
         /\ Len(delays) = k - 1
         /\ timer = 0
         /\ inFlight = 0
         /\ qpc = "done"
         /\ result = ResolvedData(history[k].data)

C2_Witness ==
  /\ Len(history) = 3 /\ history[3].cls = "success"
  /\ history[1].cls = "retryable" /\ qpc = "done"

(* C3 as stated: a non-retryable failure on attempt k < maxRetries,        *)
(* returned or thrown, ends the call at attempt k.                         *)
C3_NonRetryableStops ==
  \A k \in 1..Len(history) :
    (history[k].cls = "terminal" /\ k < maxRetries)
      => (QueryFinished /\ invocations = k /\ Len(delays) = k - 1 /\ timer = 0)

(* C4 as stated: the call never rejects; it resolves with a pair whose     *)
(* error, when there is one, is a SupabaseError.                           *)
C4_NeverRejects ==
  /\ qpc # "rejected"
  /\ result.state # "rejected"
  /\ (result.state = "resolved" /\ result.hasError) => result.error.name = "SupabaseError"

(* C5 as stated: when every attempt has been used without success the     *)
(* result is MAX_RETRIES_EXCEEDED, not retryable, wrapping the last cause. *)
C5_MaxRetriesExceeded ==
  (/\ QueryFinished /\ maxRetries >= 1 /\ Len(history) = maxRetries
   /\ history[maxRetries].cls # "success")
    => /\ result.state = "resolved" /\ result.hasError
       /\ StrictEq(result.error.code, <<"MAX_RETRIES_EXCEEDED">>)
       /\ ~result.error.isRetryable
       /\ result.error.originalError = lastCause

(* C6 as stated: an attempt whose operation never settles does not hang    *)
(* the call: a timer is there to end the attempt.                          *)
C6_TimeoutFires ==
  (qpc = "await" /\ opHung) => ENABLED NextQuery

(* C9: the delay waited before attempt n+1 is 1000 * 2^n ms, after a       *)
(* returned error and after a thrown one alike; every attempt after the    *)
(* first has waited its delay; the delays strictly increase.               *)
C9_Backoff ==
  /\ \A n \in 1..Len(delays) : delays[n] = BaseDelayMs * (2 ^ n)
  /\ \A n \in 1..(Len(delays) - 1) : delays[n] < delays[n + 1]
  /\ qpc = "backoff" => (timer = BaseDelayMs * (2 ^ attempt) /\ Len(delays) = attempt - 1)
  /\ qpc = "await" => Len(delays) = attempt - 1

C9_Witness ==
  /\ Len(delays) = 2 /\ Len(history) >= 2
  /\ history[1].via = "returned" /\ history[2].via = "thrown"

(* C10: at most one invocation of queryFn is in flight; while one is, the  *)
(* outcomes of all earlier attempts are known and no backoff is pending.   *)
C10_Sequential ==
  /\ inFlight <= 1
  /\ qpc = "await" => /\ inFlight = 1
                      /\ timer = 0
                      /\ invocations = attempt
                      /\ Len(history) = attempt - 1
                      /\ Len(delays) = attempt - 1
  /\ qpc # "await" => inFlight = 0
  /\ timer # 0 => qpc = "backoff"

C10_Witness ==
  qpc = "await" /\ attempt = 3 /\ Len(delays) = 2

(* C30: whatever maxRetries is and whatever the attempts end with, queryFn  *)
(* is invoked at most maxRetries times; a backoff is pending only while an  *)
(* invocation is still to come, and every delay taken was followed by an    *)
(* invocation; the call returns error = null only with the data of an       *)
(* invocation that returned a result without an error.                      *)
C30_BoundForEveryOutcome ==
  /\ invocations <= maxRetries
  /\ qpc = "backoff" => invocations < maxRetries
  /\ qpc \in {"await", "done", "rejected"} =>
       Len(delays) = (IF invocations = 0 THEN 0 ELSE invocations - 1)
  /\ (qpc = "done" /\ ~result.hasError) =>
       \E k \in 1..Len(history) :
         history[k].via = "ok" /\ history[k].data = result.data

(* a returned retryable error, then a thrown error that ends the call at    *)
(* the last attempt, with one delay taken                                   *)
C30_Witness ==
  /\ QueryFinished /\ maxRetries = 2 /\ invocations = 2 /\ Len(delays) = 1
  /\ Len(history) = 2
  /\ history[1].via = "returned" /\ history[2].via = "thrown"
  /\ result.hasError

----------------------------------------------------------------------------
(* signOut of the AuthProvider: useAuth.tsx races supabase.auth.signOut()   *)
(* against a 10 s timer with Promise.race (version "race"); the earlier     *)
(* version, part_003, wraps both in one hand-made promise with an 8 s timer *)
(* (version "manual"); part_002 awaits supabase.auth.signOut() with no      *)
(* timer at all (version "plain").                                          *)

JsNull == [t |-> "null", s |-> <<>>, n |-> 0]

(* promises: a settled promise keeps its state and value for ever *)
NoPromise == [state |-> "none", error |-> ErrUndefined]
Pending == [state |-> "pending", error |-> ErrUndefined]
(* resolve / reject of a promise, and what Promise.race does with a settled input *)
SettleOverwrite(p, st, e) == [state |-> st, error |-> e]
Settle(p, st, e) == IF p.state = "pending" THEN [state |-> st, error |-> e] ELSE p

(* new Error('Sign-out timeout') / new Error('Sign-out request timed out') *)
TimeoutError ==
  IF version = "race"
    THEN MkError("object", JsStr(<<"Sign-out ", "timeout">>), "Error", JsUndef, FALSE, JsUndef)
    ELSE MkError("object", JsStr(<<"Sign-out request timed out">>), "Error", JsUndef, FALSE, JsUndef)

(* the AuthError supabase.auth.signOut() can resolve with in { error } *)
AuthApiError ==
  MkError("object", JsStr(<<"Session not found">>), "AuthApiError", JsUndef, FALSE, JsUndef)

(* what supabase.auth.signOut() can reject with *)
RemoteRejections ==
  { MkError("object", JsStr(<<"Failed to fetch">>), "TypeError", JsUndef, FALSE, JsUndef),
    MkError("object", JsStr(<<"Network down">>), "NetworkError",
            JsStr(<<"NETWORK_ERROR">>), TRUE, JsUndef),
    MkError("object", JsStr(<<"Request ", "timeout">>), "Error", JsUndef, FALSE, JsUndef),
    ErrPrimitive, ErrUndefined }

(* storage keys *)
LocalKeys ==
  { <<"supabase", ".", "auth", ".", "token">>,
    <<"sb", "-", "abc", "-", "auth", "-", "token">>,
    <<"sb", "-", "abc", "-", "refresh">>,
    <<"theme">> }

SessionKeys ==
  { <<"supabase", ".", "session">>, <<"o", "auth", "-", "state">>, <<"cart">> }

(* the filter of step 2 on localStorage *)
IsAuthKey(key) ==
  \/ Includes(key, <<"supabase", ".", "auth">>)
  \/ (Includes(key, <<"sb", "-">>) /\ Includes(key, <<"auth", "-", "token">>))

(* the filter of step 2 on sessionStorage *)
IsSessionAuthKey(key) == Includes(key, <<"supabase">>) \/ Includes(key, <<"auth">>)

(* the filter of the emergency cleanup of part_003 *)
IsEmergencyKey(key) ==
  Includes(key, <<"supabase">>) \/ Includes(key, <<"auth">>) \/ Includes(key, <<"sb", "-">>)

NoAttempt == [set |-> FALSE, success |-> FALSE, stage |-> "none"]
AttemptRecord(success, stage) == [set |-> TRUE, success |-> success, stage |-> stage]
NoSignOutResult == [returned |-> FALSE, success |-> FALSE, stage |-> "none"]
SignOutResult(success, stage) == [returned |-> TRUE, success |-> success, stage |-> stage]

(* step 1: setUser(null), setSession(null), setProfile(null) *)
ClearLocalStateKeepsSession ==
  user' = "null" /\ session' = session /\ profile' = "null"
ClearLocalStateKeepsProfile ==
  user' = "null" /\ session' = "null" /\ profile' = profile
ClearLocalState ==
  user' = "null" /\ session' = "null" /\ profile' = "null"

(* how step 2 can end: reading localStorage or sessionStorage can throw     *)
(* (storage denied); part_002 does not touch sessionStorage                 *)
StorageModes ==
  IF version = "plain" THEN {"ok", "throwLocal"} ELSE {"ok", "throwLocal", "throwSession"}

(* step 2: the inner try swallows what storage access throws, leaving       *)
(* undone what came after the throw                                         *)
ClearStorageKeepsSbTokens(mode) ==
  /\ localStorage' = IF mode = "throwLocal" THEN localStorage
                     ELSE {k \in localStorage : ~Includes(k, <<"supabase", ".", "auth">>)}
  /\ sessionStorage' = IF mode \in {"throwLocal", "throwSession"} \/ version = "plain"
                         THEN sessionStorage
                       ELSE {k \in sessionStorage : ~IsSessionAuthKey(k)}
  /\ storageStep' = mode
ClearStorage(mode) ==
  /\ localStorage' = IF mode = "throwLocal" THEN localStorage
                     ELSE {k \in localStorage : ~IsAuthKey(k)}
  /\ sessionStorage' = IF mode \in {"throwLocal", "throwSession"} \/ version = "plain"
                         THEN sessionStorage
                       ELSE {k \in sessionStorage : ~IsSessionAuthKey(k)}
  /\ storageStep' = mode

(* step 3: supabase.auth.signOut() is called after the try/catch of step 2, *)
(* whether the storage step went through or threw                           *)
IssueRemoteUnlessStorageThrew(mode) == IF mode = "ok" THEN Pending ELSE NoPromise
IssueRemote(mode) == Pending

(* signOut() is called: steps 1 and 2, then the remote call and its timer,  *)
(* up to the await                                                          *)
SignOutStart ==
  /\ sopc = "idle"
  /\ signOutLoading' = TRUE
  /\ connectionError' = IF version = "manual" THEN connectionError ELSE JsNull
  /\ ClearLocalState
  /\ \E mode \in StorageModes : ClearStorage(mode) /\ remote' = IssueRemote(mode)
  /\ soTimer' = IF version = "plain" THEN "none" ELSE "armed"
  /\ race' = Pending
  /\ sopc' = "awaitRace"
  /\ UNCHANGED <<version, lastSignOutAttempt, soResult, winner>>
  /\ UNCHANGED <<qvars, frvars, dgvars, clvars, hmvars, cevars, ccvars, pbvars, auvars>>

(* the remote call settles: st is "fulfilled" (with { error: e }) or        *)
(* "rejected" (with e).  In part_003 its handlers clear the timer and call  *)
(* resolve / reject; in useAuth.tsx Promise.race takes it.                  *)
RemoteSettles(st, e) ==
  /\ remote.state = "pending"
  /\ remote' = [state |-> st, error |-> e]
  /\ race' = Settle(race, st, e)
  /\ soTimer' = IF version = "manual" /\ soTimer = "armed" THEN "cleared" ELSE soTimer
  /\ winner' = IF winner = "none" THEN "remote" ELSE winner
  /\ UNCHANGED <<version, sopc, user, session, profile, signOutLoading,
                 connectionError, lastSignOutAttempt, soResult, localStorage,
                 sessionStorage, storageStep>>
  /\ UNCHANGED <<qvars, frvars, dgvars, clvars, hmvars, cevars, ccvars, pbvars, auvars>>

RemoteResolves == \E e \in {ErrUndefined, AuthApiError} : RemoteSettles("fulfilled", e)

RemoteRejects == \E e \in RemoteRejections : RemoteSettles("rejected", e)

(* the timer fires: reject(new Error(...)) *)
TimerFires ==
  /\ soTimer = "armed"
  /\ soTimer' = "fired"
  /\ race' = Settle(race, "rejected", TimeoutError)
  /\ winner' = IF winner = "none" THEN "timer" ELSE winner
  /\ UNCHANGED <<version, sopc, user, session, profile, signOutLoading,
                 connectionError, lastSignOutAttempt, soResult, localStorage,
                 sessionStorage, remote, storageStep>>
  /\ UNCHANGED <<qvars, frvars, dgvars, clvars, hmvars, cevars, ccvars, pbvars, auvars>>

(* the inner catch (apiError) throws a TypeError itself: reading .message   *)
(* of undefined, or in useAuth.tsx calling .includes on a missing message   *)
InnerCatchThrows(apiError) ==
  \/ version \in {"race", "manual"} /\ apiError.kind = "undefined"
  \/ version = "race" /\ apiError.message.t # "str"

(* the inner catch sets connectionError: useAuth.tsx by the message,       *)
(* part_002 when apiError instanceof NetworkError, part_003 never           *)
(* (supabaseErrorHandler.logError of part_002 only logs)                    *)
ApiErrorMessage(apiError) ==
  IF version = "manual" THEN connectionError
  ELSE IF version = "plain"
    THEN IF apiError.name = "NetworkError"
           THEN JsStr(<<"Sign-out failed: ">> \o apiError.message.s)
           ELSE connectionError
  ELSE IF Includes(apiError.message.s, <<"timeout">>)
    THEN JsStr(<<"Sign-out request timed out, but local session cleared">>)
    ELSE JsStr(<<"Sign-out failed: ">> \o apiError.message.s)

(* the failureRecord of the outer catch *)
FailureRecordCompleted == AttemptRecord(FALSE, "completed")
FailureRecord == AttemptRecord(FALSE, "error_recovery")

(* what the outer catch returns: success: true, "since local state is cleared" *)
RecoveryResultFailure == SignOutResult(FALSE, "error_recovery")
RecoveryResult == SignOutResult(TRUE, "error_recovery")

(* the outer catch: emergency cleanup, failure record, result *)
ErrorRecovery ==
  /\ user' = "null" /\ session' = "null" /\ profile' = "null"
  /\ \E thrown \in BOOLEAN :
       localStorage' = IF version = "manual" /\ ~thrown
                         THEN {k \in localStorage : ~IsEmergencyKey(k)}
                         ELSE localStorage
  /\ lastSignOutAttempt' = FailureRecord
  /\ soResult' = RecoveryResult
  /\ UNCHANGED connectionError

(* the normal end: success record, result *)
Completed ==
  /\ lastSignOutAttempt' = AttemptRecord(TRUE, "completed")
  /\ soResult' = SignOutResult(TRUE, "completed")
  /\ UNCHANGED <<user, session, profile, localStorage>>

(* the awaited promise has settled: signOut goes on to its end *)
SignOutResume ==
  /\ sopc = "awaitRace"
  /\ race.state \in {"fulfilled", "rejected"}
  /\ IF race.state = "fulfilled"
       THEN Completed /\ UNCHANGED connectionError
       ELSE IF InnerCatchThrows(race.error)
         THEN ErrorRecovery
         ELSE Completed /\ connectionError' = ApiErrorMessage(race.error)
  /\ signOutLoading' = FALSE
  /\ sopc' = "done"
  /\ UNCHANGED <<version, sessionStorage, remote, race, soTimer, winner, storageStep>>
  /\ UNCHANGED <<qvars, frvars, dgvars, clvars, hmvars, cevars, ccvars, pbvars, auvars>>

NextSignOut == SignOutStart \/ RemoteResolves \/ RemoteRejects \/ TimerFires \/ SignOutResume

C11_ClearsLocalState ==
  sopc = "done" =>
    /\ soResult.returned
    /\ user = "null" /\ session = "null" /\ profile = "null"

C11_Witness ==
  /\ sopc = "done" /\ winner = "timer" /\ remote.state = "pending"
  /\ soResult.returned /\ profile = "null"

(* C12: signOut() always completes even if the remote call never settles:   *)
(* while signOut awaits and the remote call is still pending, a timer is    *)
(* armed whose firing settles the awaited promise.                          *)
C12_TimeoutProtection ==
  (sopc = "awaitRace" /\ remote.state = "pending" /\ race.state = "pending")
    => ENABLED TimerFires

C26_NeverReportsFailure ==
  /\ sopc = "done" => soResult.returned
  /\ soResult.returned =>
       soResult.success /\ soResult.stage \in {"completed", "error_recovery"}

(* the call ended in the outer catch, after the inner catch threw *)
C26_Witness ==
  /\ sopc = "done" /\ soResult.stage = "error_recovery"
  /\ race.state = "rejected" /\ InnerCatchThrows(race.error)

C29_RecordEqualsResult ==
  soResult.returned =>
    /\ lastSignOutAttempt.set
    /\ lastSignOutAttempt.success = soResult.success
    /\ lastSignOutAttempt.stage = soResult.stage

(* C29 amended: after a signOut() call lastSignOutAttempt is set and its    *)
(* stage is that of the result returned; its success is true exactly when  *)
(* the stage is 'completed', while the result's success is always true.    *)
C29_RecordStageEqualsResult ==
  soResult.returned =>
    /\ lastSignOutAttempt.set
    /\ lastSignOutAttempt.stage = soResult.stage
    /\ lastSignOutAttempt.success <=> (soResult.stage = "completed")
    /\ soResult.success

C29_Witness ==
  /\ soResult.returned /\ soResult.success /\ ~signOutLoading
  /\ lastSignOutAttempt.set /\ ~lastSignOutAttempt.success

----------------------------------------------------------------------------
(* RoutesPage.fetchRoutes (part_009, lines 29-96)                           *)

NetworkStatuses == {"connected", "limited", "offline"}

(* networkStatus === 'offline' *)
IsOfflineNever(status) == FALSE
IsOffline(status) == status = "offline"

(* new SupabaseError('No internet connection detected', 'OFFLINE_ERROR',    *)
(*                   { networkStatus }, true)                               *)
OfflineError ==
  SupabaseError(JsStr(<<"No internet connection detected">>),
                JsStr(<<"OFFLINE_ERROR">>), JsUndef, TRUE)

(* the catch block: the message shown for the error caught *)
FetchErrorMessage(e) ==
  IF e.name = "SupabaseError"
    THEN IF StrictEq(e.code, <<"NETWORK_ERROR">>)
           THEN JsStr(<<"Network connection failed. Please check your internet connection.">>)
         ELSE IF StrictEq(e.code, <<"OFFLINE_ERROR">>)
           THEN JsStr(<<"You appear to be offline. Please check your connection.">>)
         ELSE IF StrictEq(e.code, <<"PERMISSION_ERROR">>)
           THEN JsStr(<<"Access denied. Please check your account permissions.">>)
         ELSE e.message
    ELSE IF Falsy(e.message) THEN JsStr(<<"An unexpected error occurred">>)
         ELSE e.message

(* what database.getFitnessRoutes(), a safeSupabaseQuery call, settles with *)
GetRoutesOutcomes ==
  {ResolvedData(d) : d \in Data}
    \cup {ResolvedError(categorizeError(e)) :
            e \in {x \in OpErrorObjects : ~CategorizeThrows(x) /\ x.name = "Error"}}
    \cup {Rejected(NotAFunctionError)}

(* useNetwork() gives the page another status *)
NetworkChanges ==
  /\ \E st \in NetworkStatuses \ {networkStatus} : networkStatus' = st
  /\ UNCHANGED <<frpc, loading, retrying, fetchError, routes, frCaught,
                 getRoutesCalls, fetchRuns>>
  /\ UNCHANGED <<qvars, sovars, dgvars, clvars, hmvars, cevars, ccvars, pbvars, auvars>>

(* fetchRoutes(isRetry) is called and runs up to its await, or to its end   *)
(* when the pre-flight check throws                                         *)
FetchRoutesStart ==
  /\ fetchRuns < MaxRuns
  /\ fetchRuns' = fetchRuns + 1
  /\ \E isRetry \in BOOLEAN :
       IF IsOffline(networkStatus)
         THEN /\ frCaught' = OfflineError
              /\ fetchError' = FetchErrorMessage(OfflineError)
              /\ loading' = FALSE
              /\ retrying' = FALSE
              /\ UNCHANGED <<frpc, getRoutesCalls>>
         ELSE /\ loading' = IF isRetry THEN loading ELSE TRUE
              /\ retrying' = IF isRetry THEN TRUE ELSE retrying
              /\ fetchError' = JsNull
              /\ getRoutesCalls' = getRoutesCalls + 1
              /\ frpc' = frpc + 1
              /\ UNCHANGED frCaught
  /\ UNCHANGED <<networkStatus, routes>>
  /\ UNCHANGED <<qvars, sovars, dgvars, clvars, hmvars, cevars, ccvars, pbvars, auvars>>

(* an awaited database.getFitnessRoutes() settles and fetchRoutes ends *)
FetchRoutesCompletes ==
  /\ frpc > 0
  /\ frpc' = frpc - 1
  /\ \E r \in GetRoutesOutcomes :
       IF r.state = "resolved" /\ ~r.hasError
         THEN /\ routes' = r.data
              /\ fetchError' = JsNull
              /\ UNCHANGED frCaught
         ELSE /\ frCaught' = r.error
              /\ fetchError' = FetchErrorMessage(r.error)
              /\ UNCHANGED routes
  /\ loading' = FALSE
  /\ retrying' = FALSE
  /\ UNCHANGED <<networkStatus, getRoutesCalls, fetchRuns>>
  /\ UNCHANGED <<qvars, sovars, dgvars, clvars, hmvars, cevars, ccvars, pbvars, auvars>>

----------------------------------------------------------------------------
(* diagnoseSupabaseConnectivity (supabaseDiagnostics.ts, lines 1-134)       *)

NoDiagnosis == [status |-> "none", message |-> "none"]
Diagnosis(status, message) == [status |-> status, message |-> message]

(* checks 1 and 2: the environment variables and the URL format *)
ConfigError ==
  IF envUrl = "missing" \/ ~envKey
    THEN Diagnosis("config_error", "Missing Supabase environment variables")
  ELSE IF envUrl = "malformed"
    THEN Diagnosis("config_error", "Malformed Supabase URL")
  ELSE IF envUrl = "wrongHost"
    THEN Diagnosis("config_error", "Invalid Supabase URL format")
  ELSE NoDiagnosis

(* check 3: !navigator.onLine *)
BrowserOfflineNever == FALSE
BrowserOffline == ~navigatorOnLine

(* what the fetch of check 4 can end with: a response, the abort of the     *)
(* 10 s timer, or a failure with the given message chunks                   *)
FetchFailures ==
  { <<"net::", "ERR_NAME_NOT_RESOLVED">>, <<"Failed to fetch">>, <<"boom">> }

(* the catch block of check 4 *)
FetchFailureDiagnosis(msg) ==
  IF Includes(msg, <<"ERR_NAME_NOT_RESOLVED">>)
    THEN Diagnosis("dns_error", "DNS resolution failed - cannot find Supabase server")
  ELSE IF Includes(msg, <<"Failed to fetch">>)
    THEN Diagnosis("network_error", "Network request failed")
  ELSE Diagnosis("network_error", "Unknown connectivity error")

(* the browser goes online or offline *)
OnLineChanges ==
  /\ navigatorOnLine' = ~navigatorOnLine
  /\ UNCHANGED <<envUrl, envKey, dgpc, dgResult, dgFetches, dgRuns>>
  /\ UNCHANGED <<qvars, sovars, frvars, clvars, hmvars, cevars, ccvars, pbvars, auvars>>

(* diagnoseSupabaseConnectivity() is called: checks 1 to 3, then the fetch *)
DiagnoseStart ==
  /\ dgpc = "idle"
  /\ dgRuns < MaxRuns
  /\ dgRuns' = dgRuns + 1
  /\ IF ConfigError # NoDiagnosis
       THEN dgResult' = ConfigError /\ UNCHANGED <<dgpc, dgFetches>>
     ELSE IF BrowserOffline
       THEN /\ dgResult' = Diagnosis("network_error", "No internet connection")
            /\ UNCHANGED <<dgpc, dgFetches>>
     ELSE /\ dgFetches' = dgFetches + 1
          /\ dgpc' = "fetching"
          /\ UNCHANGED dgResult
  /\ UNCHANGED <<navigatorOnLine, envUrl, envKey>>
  /\ UNCHANGED <<qvars, sovars, frvars, clvars, hmvars, cevars, ccvars, pbvars, auvars>>

(* the fetch of check 4 ends *)
DiagnoseFetchEnds ==
  /\ dgpc = "fetching"
  /\ dgpc' = "idle"
  /\ \/ dgResult' = Diagnosis("success", "Supabase connectivity confirmed")
     \/ dgResult' = Diagnosis("network_error", "Connection timeout")
     \/ \E msg \in FetchFailures : dgResult' = FetchFailureDiagnosis(msg)
  /\ UNCHANGED <<navigatorOnLine, envUrl, envKey, dgFetches, dgRuns>>
  /\ UNCHANGED <<qvars, sovars, frvars, clvars, hmvars, cevars, ccvars, pbvars, auvars>>

NextOffline ==
  \/ NetworkChanges \/ FetchRoutesStart \/ FetchRoutesCompletes
  \/ OnLineChanges \/ DiagnoseStart \/ DiagnoseFetchEnds

(* C8: while the status given to fetchRoutes is 'offline' no call of        *)
(* database.getFitnessRoutes() is made, and a call of fetchRoutes made then *)
(* ends at once with the OFFLINE_ERROR caught and its message shown; while  *)
(* navigator.onLine is false the diagnosis issues no fetch, and a diagnosis *)
(* that reaches the connectivity check returns 'No internet connection'.    *)
C8_OfflinePreflight ==
  [][ /\ networkStatus = "offline" => getRoutesCalls' = getRoutesCalls
      /\ (networkStatus = "offline" /\ fetchRuns' # fetchRuns)
           => /\ StrictEq(frCaught'.code, <<"OFFLINE_ERROR">>)
              /\ fetchError' = JsStr(<<"You appear to be offline. Please check your connection.">>)
              /\ frpc' = frpc
              /\ ~loading' /\ ~retrying'
      /\ ~navigatorOnLine => dgFetches' = dgFetches
      /\ (~navigatorOnLine /\ dgRuns' # dgRuns /\ envUrl = "ok" /\ envKey)
           => /\ dgResult' = Diagnosis("network_error", "No internet connection")
              /\ dgpc' = "idle"
    ]_vars

C8_Witness ==
  /\ fetchRuns = 2 /\ getRoutesCalls = 0 /\ networkStatus = "offline"
  /\ StrictEq(frCaught.code, <<"OFFLINE_ERROR">>)
  /\ dgRuns >= 1 /\ dgFetches = 0 /\ ~navigatorOnLine
  /\ dgResult = Diagnosis("network_error", "No internet connection")

(* C21: the error fetchRoutes builds and catches for the offline condition  *)
(* (code OFFLINE_ERROR) carries isRetryable = false.                        *)
C21_OfflineTerminal ==
  StrictEq(frCaught.code, <<"OFFLINE_ERROR">>) => ~frCaught.isRetryable

----------------------------------------------------------------------------
(* AuthCleaner.clearAllAuthCredentials (AuthCleaner.tsx, lines 20-185).     *)
(* Storage is the list of its keys in the order key(i) enumerates them;     *)
(* removeItem takes the key out of the list and the keys after it move up.  *)
(* Steps 4 to 8 (cookies, caches, IndexedDB, session check, reload timer)   *)
(* do not touch localStorage or sessionStorage.                             *)

CleanerLocalKeys ==
  LocalKeys \cup { <<"user", "-prefs">> }

CleanerSessionKeys == SessionKeys

(* the lists of at most n distinct keys of S *)
KeyLists(S, n) ==
  { l \in UNION { [1..k -> S] : k \in 0..n } :
      \A i, j \in DOMAIN l : i # j => l[i] # l[j] }

(* the test of the localStorage loop (lines 49-56) *)
IsCleanerLocalKey(key) ==
  \/ Includes(key, <<"supabase">>) \/ Includes(key, <<"auth">>)
  \/ Includes(key, <<"sb", "-">>) \/ Includes(key, <<"token">>)
  \/ Includes(key, <<"session">>) \/ Includes(key, <<"user">>)

(* the test of the sessionStorage loop (lines 73-80) *)
IsCleanerSessionKey(key) ==
  \/ Includes(key, <<"supabase">>) \/ Includes(key, <<"auth">>)
  \/ Includes(key, <<"sb", "-">>) \/ Includes(key, <<"token">>)
  \/ Includes(key, <<"session">>) \/ Includes(key, <<"o", "auth">>)

(* storage.removeItem(storage.key(i)) *)
RemoveAt(l, i) == SubSeq(l, 1, i - 1) \o SubSeq(l, i + 1, Len(l))

NotAuthKey(key) == ~IsAuthKey(key)
NotSessionAuthKey(key) == ~IsSessionAuthKey(key)

(* clearAllAuthCredentials() is called: step 1 awaits signOut() when a user *)
(* is signed in; step 2 of signOut removes its keys unless storage throws   *)
CleanerStart ==
  /\ clpc = "idle"
  /\ isClearing' = TRUE /\ isComplete' = FALSE
  /\ \E mode \in {"ok", "throwLocal", "throwSession"} :
       /\ clLocal' = IF clUser /\ mode # "throwLocal"
                       THEN SelectSeq(clLocal, NotAuthKey) ELSE clLocal
       /\ clSession' = IF clUser /\ mode = "ok"
                         THEN SelectSeq(clSession, NotSessionAuthKey) ELSE clSession
  /\ cli' = 0 /\ clRemoved' = <<>>
  /\ clpc' = "local"
  /\ UNCHANGED clUser
  /\ UNCHANGED <<qvars, sovars, frvars, dgvars, hmvars, cevars, ccvars, pbvars, auvars>>

(* one iteration of for (let i = 0; i < localStorage.length; i++) *)
LocalLoopStep ==
  /\ clpc = "local" /\ cli < Len(clLocal)
  /\ IF IsCleanerLocalKey(clLocal[cli + 1])
       THEN /\ clRemoved' = Append(clRemoved, clLocal[cli + 1])
            /\ clLocal' = RemoveAt(clLocal, cli + 1)
       ELSE UNCHANGED <<clRemoved, clLocal>>
  /\ cli' = cli + 1
  /\ UNCHANGED <<clpc, clUser, clSession, isClearing, isComplete>>
  /\ UNCHANGED <<qvars, sovars, frvars, dgvars, hmvars, cevars, ccvars, pbvars, auvars>>

(* the localStorage loop ends; step 3 starts *)
LocalLoopEnds ==
  /\ clpc = "local" /\ ~(cli < Len(clLocal))
  /\ clpc' = "session" /\ cli' = 0 /\ clRemoved' = <<>>
  /\ UNCHANGED <<clUser, clLocal, clSession, isClearing, isComplete>>
  /\ UNCHANGED <<qvars, sovars, frvars, dgvars, hmvars, cevars, ccvars, pbvars, auvars>>

(* one iteration of for (let i = 0; i < sessionStorage.length; i++) *)
SessionLoopStep ==
  /\ clpc = "session" /\ cli < Len(clSession)
  /\ IF IsCleanerSessionKey(clSession[cli + 1])
       THEN /\ clRemoved' = Append(clRemoved, clSession[cli + 1])
            /\ clSession' = RemoveAt(clSession, cli + 1)
       ELSE UNCHANGED <<clRemoved, clSession>>
  /\ cli' = cli + 1
  /\ UNCHANGED <<clpc, clUser, clLocal, isClearing, isComplete>>
  /\ UNCHANGED <<qvars, sovars, frvars, dgvars, hmvars, cevars, ccvars, pbvars, auvars>>

(* the sessionStorage loop ends; steps 4 to 8 and the finally block *)
SessionLoopEnds ==
  /\ clpc = "session" /\ ~(cli < Len(clSession))
  /\ clpc' = "done"
  /\ isComplete' = TRUE /\ isClearing' = FALSE
  /\ UNCHANGED <<clUser, clLocal, clSession, cli, clRemoved>>
  /\ UNCHANGED <<qvars, sovars, frvars, dgvars, hmvars, cevars, ccvars, pbvars, auvars>>

NextCleaner ==
  CleanerStart \/ LocalLoopStep \/ LocalLoopEnds \/ SessionLoopStep \/ SessionLoopEnds

(* C14: after clearAllAuthCredentials() has finished, no localStorage key   *)
(* containing 'supabase', 'auth', 'sb-', 'token', 'session' or 'user' and   *)
(* no sessionStorage key containing 'supabase', 'auth', 'sb-', 'token',     *)
(* 'session' or 'oauth' remains, for every initial set and order of keys.   *)
C14_AllAuthEntriesRemoved ==
  clpc = "done" =>
    /\ \A i \in DOMAIN clLocal : ~IsCleanerLocalKey(clLocal[i])
    /\ \A i \in DOMAIN clSession : ~IsCleanerSessionKey(clSession[i])

----------------------------------------------------------------------------
(* SupabaseHealthMonitor (supabase.ts, lines 137-205).  healthListeners is  *)
(* a Set: add appends a value that is not in it, delete empties the entry   *)
(* in place, and forEach walks the entries in insertion order, reading the  *)
(* length again at every step, so that it skips deleted entries and reaches *)
(* entries appended while it runs.                                          *)

Callbacks == 1..NumCallbacks

NoReturn == [state |-> "none", value |-> FALSE]
NoOp == [op |-> "none", cb |-> 0, again |-> FALSE]

(* the callbacks in the Set *)
Registered(entries) == { entries[i] : i \in DOMAIN entries } \ {0}

(* Set.prototype.add *)
SetAdd(entries, cb) ==
  IF cb \in Registered(entries) THEN entries ELSE Append(entries, cb)

(* Set.prototype.delete *)
SetDeleteShifting(entries, cb) ==
  SelectSeq(entries, LAMBDA x : x # cb)
SetDelete(entries, cb) ==
  [i \in DOMAIN entries |-> IF entries[i] = cb THEN 0 ELSE entries[i]]

(* deleted entries are dropped once no forEach is running over them *)
Compact(entries) == SelectSeq(entries, LAMBDA x : x # 0)

(* the try/catch around callback(status): the loop goes on after a callback *)
(* whether it returned or threw                                             *)
LoopGoesOnUncaught(threw) == ~threw
LoopGoesOn(threw) == TRUE

(* what the unsubscribe function of cb does *)
UnsubscribeKeeps(entries, cb) == entries
Unsubscribe(entries, cb) == SetDelete(entries, cb)

(* what a callback can do when it is invoked: return, throw, call an        *)
(* unsubscribe function it holds, or register a callback                    *)
CallbackEffects ==
  { [k |-> "return", c |-> 0], [k |-> "throw", c |-> 0] }
    \cup (IF hmMutations < MaxMutations
            THEN { [k |-> "unsubscribe", c |-> x] : x \in hmHandles }
                   \cup { [k |-> "register", c |-> x] : x \in Callbacks }
            ELSE {})

(* the record of the last notification is dropped at the next operation *)
ForgetNotification ==
  /\ hmIdx' = 0
  /\ hmInvoked' = [c \in Callbacks |-> 0]
  /\ hmStayed' = {}
  /\ hmThrew' = {}
  /\ hmMutations' = 0

(* addHealthListener(cb) called outside a notification *)
AddHealthListener ==
  /\ hmpc # "notifying"
  /\ \E cb \in Callbacks :
       /\ healthListeners' = SetAdd(healthListeners, cb)
       /\ hmHandles' = hmHandles \cup {cb}
       /\ hmGone' = hmGone \ {cb}
       /\ hmLastOp' = [op |-> "register", cb |-> cb, again |-> FALSE]
  /\ ForgetNotification
  /\ UNCHANGED <<healthStatus, lastHealthCheck, hmpc, hmIsHealthy, hmReturn>>
  /\ UNCHANGED <<qvars, sovars, frvars, dgvars, clvars, cevars, ccvars, pbvars, auvars>>

(* an unsubscribe function called outside a notification, for the first     *)
(* time or again                                                            *)
CallUnsubscribe ==
  /\ hmpc # "notifying"
  /\ \E cb \in hmHandles :
       /\ healthListeners' = Compact(Unsubscribe(healthListeners, cb))
       /\ hmGone' = hmGone \cup {cb}
       /\ hmLastOp' = [op |-> "unsubscribe", cb |-> cb, again |-> cb \in hmGone]
  /\ ForgetNotification
  /\ UNCHANGED <<healthStatus, lastHealthCheck, hmpc, hmIsHealthy, hmReturn, hmHandles>>
  /\ UNCHANGED <<qvars, sovars, frvars, dgvars, clvars, cevars, ccvars, pbvars, auvars>>

(* checkHealth() is called: up to await fetch(...) *)
CheckHealthStart ==
  /\ hmpc = "idle"
  /\ hmpc' = "fetching"
  /\ hmLastOp' = [op |-> "checkHealth", cb |-> 0, again |-> FALSE]
  /\ ForgetNotification
  /\ UNCHANGED <<healthStatus, lastHealthCheck, healthListeners, hmIsHealthy,
                 hmReturn, hmHandles, hmGone>>
  /\ UNCHANGED <<qvars, sovars, frvars, dgvars, clvars, cevars, ccvars, pbvars, auvars>>

(* the fetch settles: the status and lastHealthCheck are set and            *)
(* notifyListeners(this.healthStatus) starts                                *)
FetchSettles ==
  /\ hmpc = "fetching"
  /\ \E outcome \in {"okFast", "okSlow", "notOk", "rejected"} :
       /\ hmIsHealthy' = (outcome = "okFast")
       /\ healthStatus' = IF outcome = "rejected" THEN "down"
                          ELSE IF outcome = "okFast" THEN "healthy" ELSE "degraded"
  /\ lastHealthCheck' = "date"
  /\ hmpc' = "notifying"
  /\ hmIdx' = 0
  /\ hmInvoked' = [c \in Callbacks |-> 0]
  /\ hmStayed' = Registered(healthListeners)
  /\ hmThrew' = {}
  /\ hmMutations' = 0
  /\ hmLastOp' = [op |-> "notify", cb |-> 0, again |-> FALSE]
  /\ UNCHANGED <<healthListeners, hmReturn, hmHandles, hmGone>>
  /\ UNCHANGED <<qvars, sovars, frvars, dgvars, clvars, cevars, ccvars, pbvars, auvars>>

(* forEach goes past one entry: a deleted entry is skipped, a callback is   *)
(* invoked inside try/catch                                                 *)
NotifyStep ==
  /\ hmpc = "notifying" /\ hmIdx < Len(healthListeners)
  /\ LET cb == healthListeners[hmIdx + 1] IN
       IF cb = 0
         THEN /\ hmIdx' = hmIdx + 1
              /\ UNCHANGED <<healthListeners, hmpc, hmReturn, hmInvoked, hmStayed,
                             hmThrew, hmMutations, hmHandles, hmGone, hmLastOp>>
         ELSE \E eff \in CallbackEffects :
              /\ hmInvoked' = [hmInvoked EXCEPT ![cb] = @ + 1]
              /\ hmLastOp' = [op |-> "invoke", cb |-> cb, again |-> FALSE]
              /\ hmThrew' = IF eff.k = "throw" THEN hmThrew \cup {cb} ELSE hmThrew
              /\ healthListeners' =
                   CASE eff.k = "unsubscribe" -> Unsubscribe(healthListeners, eff.c)
                     [] eff.k = "register" -> SetAdd(healthListeners, eff.c)
                     [] OTHER -> healthListeners
              /\ hmStayed' = IF eff.k = "unsubscribe" THEN hmStayed \ {eff.c} ELSE hmStayed
              /\ hmGone' =
                   CASE eff.k = "unsubscribe" -> hmGone \cup {eff.c}
                     [] eff.k = "register" -> hmGone \ {eff.c}
                     [] OTHER -> hmGone
              /\ hmHandles' = IF eff.k = "register" THEN hmHandles \cup {eff.c} ELSE hmHandles
              /\ hmMutations' = IF eff.k \in {"unsubscribe", "register"}
                                  THEN hmMutations + 1 ELSE hmMutations
              /\ IF LoopGoesOn(eff.k = "throw")
                   THEN hmIdx' = hmIdx + 1 /\ UNCHANGED <<hmpc, hmReturn>>
                   ELSE /\ hmIdx' = hmIdx
                        /\ hmpc' = "idle"
                        /\ hmReturn' = [state |-> "rejected", value |-> FALSE]
  /\ UNCHANGED <<healthStatus, lastHealthCheck, hmIsHealthy>>
  /\ UNCHANGED <<qvars, sovars, frvars, dgvars, clvars, cevars, ccvars, pbvars, auvars>>

(* forEach is through; checkHealth returns isHealthy (false in the catch)   *)
NotifyEnds ==
  /\ hmpc = "notifying" /\ ~(hmIdx < Len(healthListeners))
  /\ hmpc' = "idle"
  /\ hmReturn' = [state |-> "fulfilled", value |-> hmIsHealthy]
  /\ healthListeners' = Compact(healthListeners)
  /\ hmLastOp' = [op |-> "return", cb |-> 0, again |-> FALSE]
  /\ UNCHANGED <<healthStatus, lastHealthCheck, hmIdx, hmIsHealthy, hmInvoked,
                 hmStayed, hmThrew, hmMutations, hmHandles, hmGone>>
  /\ UNCHANGED <<qvars, sovars, frvars, dgvars, clvars, cevars, ccvars, pbvars, auvars>>

NextMonitor ==
  AddHealthListener \/ CallUnsubscribe \/ CheckHealthStart \/ FetchSettles
    \/ NotifyStep \/ NotifyEnds

(* C15: an exception thrown by a listener is caught: when the notification  *)
(* is over every callback that stayed registered has been invoked, whatever *)
(* the others threw, and checkHealth() fulfils with its result (true        *)
(* exactly when the status is 'healthy'); it never rejects.                 *)
C15_ListenerIsolation ==
  /\ hmReturn.state # "rejected"
  /\ hmLastOp.op = "return" =>
       /\ \A cb \in hmStayed : hmInvoked[cb] >= 1
       /\ hmReturn.state = "fulfilled"
       /\ hmReturn.value = (healthStatus = "healthy")

C15_Witness ==
  /\ hmLastOp.op = "return"
  /\ Len(healthListeners) >= 2
  /\ healthListeners[1] \in hmThrew
  /\ hmInvoked[healthListeners[2]] = 1

(* C16: a callback is invoked only while it is registered: never after an   *)
(* unsubscribe function of it has been called and before it is registered   *)
(* again; every callback registered throughout a notification has been      *)
(* invoked when the notification ends; an unsubscribe function removes its  *)
(* callback and nothing else, and called again it changes nothing.          *)
C16_Unsubscribe ==
  [][ /\ \A cb \in Callbacks :
           hmInvoked'[cb] > hmInvoked[cb] =>
             cb \notin hmGone /\ cb \in Registered(healthListeners)
      /\ (hmLastOp'.op = "return" /\ hmLastOp.op # "return") =>
           \A cb \in hmStayed' : hmInvoked'[cb] >= 1
      /\ hmLastOp'.op = "unsubscribe" =>
           /\ Registered(healthListeners') = Registered(healthListeners) \ {hmLastOp'.cb}
           /\ hmLastOp'.again => healthListeners' = healthListeners
    ]_vars

C16_Witness ==
  /\ hmLastOp.op = "unsubscribe" /\ hmLastOp.again
  /\ Registered(healthListeners) # {}
  /\ lastHealthCheck = "date"

(* C17: when callbacks remove or register listeners during a notification,  *)
(* every callback that stays registered throughout it is invoked exactly    *)
(* once: never twice while the notification runs, once when it is over.     *)
C17_MutationSafe ==
  /\ hmpc = "notifying" => \A cb \in hmStayed : hmInvoked[cb] <= 1
  /\ hmLastOp.op = "return" => \A cb \in hmStayed : hmInvoked[cb] = 1

C17_Witness ==
  /\ hmLastOp.op = "return"
  /\ hmMutations = MaxMutations
  /\ hmGone # {}
  /\ Cardinality(hmStayed) >= 2

----------------------------------------------------------------------------
(* categorizeError(error, context) on its own (supabase.ts, lines 257-335)  *)

(* the function returns a SupabaseError *)
CategorizeReturns ==
  /\ cepc = "idle" /\ ~CategorizeThrows(ceInput)
  /\ cepc' = "done"
  /\ ceOutcome' = "returned"
  /\ ceOutput' = categorizeError(ceInput)
  /\ UNCHANGED ceInput
  /\ UNCHANGED <<qvars, sovars, frvars, dgvars, clvars, hmvars, ccvars, pbvars, auvars>>

(* the function throws: message?.includes or code?.startsWith is called on  *)
(* a value that is not a string                                             *)
CategorizeRaises ==
  /\ cepc = "idle" /\ CategorizeThrows(ceInput)
  /\ cepc' = "done"
  /\ ceOutcome' = "threw"
  /\ ceOutput' = NotAFunctionError
  /\ UNCHANGED ceInput
  /\ UNCHANGED <<qvars, sovars, frvars, dgvars, clvars, hmvars, ccvars, pbvars, auvars>>

NextClassify == CategorizeReturns \/ CategorizeRaises

(* a failure with an HTTP status >= 500 in its code, or a transport         *)
(* failure: 'Failed to fetch', a DNS failure, a TypeError                   *)
IsTransient(e) ==
  /\ e.kind = "object"
  /\ \/ HasServerStatus(e)
     \/ OptIncludes(e.message, <<"Failed to fetch">>)
     \/ OptIncludes(e.message, <<"ERR_NAME_NOT_RESOLVED">>)
     \/ e.name = "TypeError"

(* C18 as stated: a failure whose code is an HTTP status in [400, 500) is   *)
(* classified CLIENT_ERROR, not retryable, and the call makes no further    *)
(* attempt after it: no backoff is scheduled, queryFn is not called again.  *)
C18_ClientErrorNotRetried ==
  /\ (qpc = "backoff" => ~lastFailure.client)
  /\ (qpc = "done" /\ result.hasError /\ lastFailure.client)
       => /\ StrictEq(result.error.code, <<"CLIENT_ERROR">>)
          /\ ~result.error.isRetryable

(* C19 as stated: every transient failure, whether its code is a string or  *)
(* a number, is classified SERVER_ERROR or NETWORK_ERROR with retryable     *)
(* true.                                                                    *)
C19_TransientRetryable ==
  (cepc = "done" /\ IsTransient(ceInput))
    => /\ ceOutcome = "returned"
       /\ ceOutput.isRetryable
       /\ \/ StrictEq(ceOutput.code, <<"SERVER_ERROR">>)
          \/ StrictEq(ceOutput.code, <<"NETWORK_ERROR">>)

(* C20 as stated: a failure that matches no classification rule ends the    *)
(* call with code UNKNOWN_ERROR, not retryable, and is never retried: no    *)
(* backoff is scheduled after it.                                           *)
C20_UnknownNeverRetried ==
  /\ (qpc = "backoff" => ~lastFailure.unmatched)
  /\ (qpc = "done" /\ result.hasError /\ lastFailure.unmatched)
       => /\ StrictEq(result.error.code, <<"UNKNOWN_ERROR">>)
          /\ ~result.error.isRetryable
  /\ (qpc = "rejected" => ~lastFailure.unmatched)

----------------------------------------------------------------------------
(* Several calls of safeSupabaseQuery in flight together (supabase.ts,      *)
(* lines 208-255).  attempt, lastError and result are locals of a call.     *)

NumCalls == 2
MaxCallRetries == 2
CallIds == 1..NumCalls

(* a call not made yet; m is the maxRetries it will be made with *)
IdleCall(m) ==
  [pc |-> "idle", maxRetries |-> m, attempt |-> 1, lastError |-> ErrUndefined,
   result |-> NoResult, log |-> <<>>]

(* failures of each kind: retryable, not retryable, and one the rules throw on *)
FetchFailed ==
  MkError("object", JsStr(<<"TypeError: ", "Failed to fetch">>), "TypeError",
          JsUndef, FALSE, JsUndef)
JwtExpired ==
  MkError("object", JsStr(<<"JWT", " expired">>), "Error", JsUndef, FALSE, JsUndef)
NumericCode ==
  MkError("object", JsStr(<<"boom">>), "Error", JsNum(503), FALSE, JsUndef)

(* what the promise of queryFn() can settle with *)
CallSettlements ==
  { ResolvedData("rowsA"), ResolvedError(FetchFailed), ResolvedError(JwtExpired),
    Rejected(NumericCode) }

(* const finalError = categorizeError(lastError, context); return {...} *)
CallFinal(c, e) ==
  IF CategorizeThrows(e)
    THEN [c EXCEPT !.pc = "rejected", !.result = Rejected(NotAFunctionError)]
    ELSE [c EXCEPT !.pc = "done", !.result = ResolvedError(categorizeError(e))]

(* the loop test attempt <= maxRetries and the call queryFn() *)
CallEnter(c, a) ==
  IF a <= c.maxRetries
    THEN [c EXCEPT !.attempt = a, !.pc = "await"]
    ELSE CallFinal([c EXCEPT !.attempt = a], c.lastError)

(* the catch block *)
CallCatch(c, e) ==
  IF c.attempt = c.maxRetries
    THEN CallFinal([c EXCEPT !.lastError = e], e)
    ELSE [c EXCEPT !.lastError = e, !.pc = "backoff"]

(* the body of the try block once queryFn()'s promise has settled with r *)
CallSettle(c, r) ==
  IF r.state = "rejected" THEN CallCatch(c, r.error)
  ELSE IF ~r.hasError THEN [c EXCEPT !.pc = "done", !.result = ResolvedData(r.data)]
  ELSE IF CategorizeThrows(r.error) THEN CallCatch(c, NotAFunctionError)
  ELSE LET supabaseError == categorizeError(r.error) IN
       IF ~supabaseError.isRetryable \/ c.attempt = c.maxRetries
         THEN [c EXCEPT !.pc = "done", !.result = ResolvedError(supabaseError)]
         ELSE [c EXCEPT !.lastError = supabaseError, !.pc = "backoff"]

CallEvents ==
  {[type |-> "start", r |-> NoResult], [type |-> "timer", r |-> NoResult]}
    \cup {[type |-> "settle", r |-> r] : r \in CallSettlements}

(* one step of a call: it runs from one await to the next, or to its return *)
CallStep(c, ev) ==
  IF ev.type = "start" THEN CallEnter(c, 1)
  ELSE IF ev.type = "timer" THEN CallEnter(c, c.attempt + 1)
  ELSE CallSettle(c, ev.r)

(* let attempt, let lastError: a step of call i writes the locals of call i *)
WriteShared(cs, i, c) ==
  [j \in DOMAIN cs |->
     IF j = i THEN c ELSE [cs[j] EXCEPT !.attempt = c.attempt, !.lastError = c.lastError]]
WriteLocals(cs, i, c) == [cs EXCEPT ![i] = c]

Advance(i, ev) ==
  /\ calls' = WriteLocals(calls, i,
                [CallStep(calls[i], ev) EXCEPT !.log = Append(calls[i].log, ev)])
  /\ UNCHANGED <<qvars, sovars, frvars, dgvars, clvars, hmvars, cevars, pbvars, auvars>>

(* call i of safeSupabaseQuery is made *)
CallStarts ==
  \E i \in CallIds :
    /\ calls[i].pc = "idle"
    /\ Advance(i, [type |-> "start", r |-> NoResult])

(* the promise queryFn() returned to call i settles *)
CallQuerySettles ==
  \E i \in CallIds, r \in CallSettlements :
    /\ calls[i].pc = "await"
    /\ Advance(i, [type |-> "settle", r |-> r])

(* the backoff timer of call i fires *)
CallBackoffElapsed ==
  \E i \in CallIds :
    /\ calls[i].pc = "backoff"
    /\ Advance(i, [type |-> "timer", r |-> NoResult])

NextCalls == CallStarts \/ CallQuerySettles \/ CallBackoffElapsed

(* a call made alone with maxRetries m, after the events of log *)
RECURSIVE RunAlone(_, _)
RunAlone(m, log) ==
  IF log = <<>> THEN IdleCall(m)
  ELSE [CallStep(RunAlone(m, SubSeq(log, 1, Len(log) - 1)), log[Len(log)])
          EXCEPT !.log = log]

(* C22: in every interleaving of the calls in flight, the attempt counter, *)
(* the last error, the position and the result of each call are those of a *)
(* call made alone that saw the same outcomes of its own operation.        *)
C22_CallsIndependent ==
  \A i \in CallIds : calls[i] = RunAlone(calls[i].maxRetries, calls[i].log)

(* two calls in flight together, each after a failure of its own *)
C22_Witness ==
  /\ calls[1].pc = "await" /\ calls[1].attempt = 2
  /\ calls[2].pc = "backoff" /\ calls[2].attempt = 1
  /\ calls[1].lastError # calls[2].lastError

----------------------------------------------------------------------------
(* Several checkHealth() calls in flight together (supabase.ts, lines       *)
(* 150-182).  A call runs up to await fetch(...); what follows the await    *)
(* runs in one piece when the fetch has settled.  No listener is registered *)
(* here, so that notifyListeners has nothing to walk.                       *)

MaxProbes == 3
ProbeIds == 1..MaxProbes

IdleProbe == [pc |-> "idle", outcome |-> "none", returned |-> FALSE]

(* how the fetch of a probe can end: a response that is ok and came within  *)
(* 5 s, one that is ok and came later, one that is not ok, a rejection (a   *)
(* network failure or the 10 s abort)                                       *)
FetchOutcomes == {"okFast", "okSlow", "notOk", "rejected"}

(* const isHealthy = response.ok && responseTime < 5000; false in the catch *)
ProbeIsHealthy(outcome) == outcome = "okFast"

(* this.healthStatus = isHealthy ? 'healthy' : 'degraded'; 'down' in the catch *)
ProbeStatusIgnoringLatency(outcome) ==
  IF outcome = "rejected" THEN "down"
  ELSE IF outcome \in {"okFast", "okSlow"} THEN "healthy" ELSE "degraded"
ProbeStatus(outcome) ==
  IF outcome = "rejected" THEN "down"
  ELSE IF ProbeIsHealthy(outcome) THEN "healthy" ELSE "degraded"

(* getHealthStatus() *)
getHealthStatus == [status |-> healthStatus, lastCheck |-> lastHealthCheck]

(* checkHealth() is called: up to await fetch(...) *)
ProbeStarts ==
  /\ \E p \in ProbeIds :
       /\ probes[p].pc = "idle"
       /\ \A q \in ProbeIds : q < p => probes[q].pc # "idle"
       /\ probes' = [probes EXCEPT ![p].pc = "fetching"]
  /\ UNCHANGED <<probeDone, hmvars>>
  /\ UNCHANGED <<qvars, sovars, frvars, dgvars, clvars, cevars, ccvars, auvars>>

(* the fetch of a call settles: the rest of checkHealth runs to its return *)
ProbeFetchSettles ==
  /\ \E p \in ProbeIds, outcome \in FetchOutcomes :
       /\ probes[p].pc = "fetching"
       /\ healthStatus' = ProbeStatus(outcome)
       /\ lastHealthCheck' = "date"
       /\ probes' = [probes EXCEPT ![p] = [pc |-> "done", outcome |-> outcome,
                                           returned |-> ProbeIsHealthy(outcome)]]
       /\ probeDone' = Append(probeDone, p)
  /\ UNCHANGED <<healthListeners, hmpc, hmIdx, hmIsHealthy, hmReturn, hmInvoked,
                 hmStayed, hmThrew, hmMutations, hmHandles, hmGone, hmLastOp>>
  /\ UNCHANGED <<qvars, sovars, frvars, dgvars, clvars, cevars, ccvars, auvars>>

NextProbes == ProbeStarts \/ ProbeFetchSettles

(* C23: when a checkHealth() call completes, the status getHealthStatus()   *)
(* gives is the one derived from the fetch of that call ('down' for a       *)
(* rejection, 'healthy' for an ok response within 5 s, 'degraded'           *)
(* otherwise), lastCheck is non-null, and the call returns true exactly     *)
(* when that status is 'healthy'; in whatever order overlapping calls       *)
(* complete.                                                                *)
C23_ProbeUpdatesCache ==
  [][ \A p \in ProbeIds :
        (probes[p].pc = "fetching" /\ probes'[p].pc = "done") =>
          /\ getHealthStatus'.status =
               (CASE probes'[p].outcome = "rejected" -> "down"
                  [] probes'[p].outcome = "okFast" -> "healthy"
                  [] OTHER -> "degraded")
          /\ getHealthStatus'.lastCheck # "null"
          /\ probes'[p].returned <=> (getHealthStatus'.status = "healthy")
    ]_vars

(* two calls overlapped and the one started later completed first, with    *)
(* another status                                                          *)
C23_Witness ==
  /\ Len(probeDone) >= 2 /\ probeDone[1] = 2 /\ probeDone[2] = 1
  /\ probes[1].outcome # probes[2].outcome
  /\ healthStatus = "degraded" /\ probes[1].outcome = "okSlow"

----------------------------------------------------------------------------
(* The AuthProvider as a whole (useAuth.tsx): initializeAuth (lines 40-72), *)
(* the onAuthStateChange callback (lines 77-113), fetchProfile (lines       *)
(* 121-139) and several signOut() calls (lines 190-296).  Each action is    *)
(* the stretch of a function between two awaits; the setters called in one  *)
(* stretch take effect together.                                            *)

MaxAuthEvents == 2
NumSignOuts == 2
SignOutIds == 1..NumSignOuts

Sessions == {"sA", "sB"}

(* session.user *)
SessionUser(s) == IF s = "sA" THEN "uA" ELSE "uB"

(* session?.user ?? null *)
UserOf(s) == IF s = "null" THEN "null" ELSE SessionUser(s)

(* the row of the profiles table with id = userId *)
ProfileOf(userId) == IF userId = "uA" THEN "pA" ELSE "pB"

(* the (event, session) pairs supabase-js hands to the callback *)
AuthChanges ==
  {[event |-> "SIGNED_IN", session |-> s] : s \in Sessions}
    \cup {[event |-> "SIGNED_OUT", session |-> "null"]}

(* what database.getProfile(userId) ends with: { data }, { error }, or a    *)
(* rejection, which fetchProfile catches                                    *)
GetProfileOutcomes == {"data", "error", "throws"}

(* fetchProfile: setProfile(data) or setProfile(null) *)
FetchedProfile(userId, outcome) ==
  IF outcome = "data" THEN ProfileOf(userId) ELSE "null"

(* what the awaited Promise.race of a signOut() call settles with *)
SignOutSettlements ==
  {[state |-> "fulfilled", error |-> AuthApiError]}
    \cup {[state |-> "rejected", error |-> e] :
            e \in {x \in RemoteRejections : x.name = "TypeError" \/ x.kind = "undefined"}
                    \cup {TimeoutError}}

(* the cleanup of the effect: mounted = false *)
Unmount ==
  /\ mounted
  /\ mounted' = FALSE
  /\ UNCHANGED <<authLoading, initpc, fetches, authEvents, soCalls>>
  /\ UNCHANGED <<qvars, sovars, frvars, dgvars, clvars, hmvars, cevars, ccvars, pbvars>>

(* supabase.auth.getSession() settles and initializeAuth goes on, to its    *)
(* end or to await fetchProfile(...)                                        *)
GetSessionSettles ==
  /\ initpc = "getSession"
  /\ \E r \in {[k |-> "session", s |-> s] : s \in Sessions \cup {"null"}}
                \cup {[k |-> "error", s |-> "null"], [k |-> "throws", s |-> "null"]} :
       IF ~mounted
         THEN /\ initpc' = "done"
              /\ UNCHANGED <<user, session, connectionError, authLoading, fetches>>
       ELSE IF r.k = "error"
         THEN /\ connectionError' = JsStr(<<"Failed to initialize authentication">>)
              /\ authLoading' = FALSE
              /\ initpc' = "done"
              /\ UNCHANGED <<user, session, fetches>>
       ELSE IF r.k = "throws"
         THEN /\ connectionError' = JsStr(<<"Authentication initialization failed">>)
              /\ authLoading' = FALSE
              /\ initpc' = "done"
              /\ UNCHANGED <<user, session, fetches>>
       ELSE /\ session' = r.s
            /\ user' = UserOf(r.s)
            /\ UNCHANGED connectionError
            /\ IF r.s # "null"
                 THEN /\ fetches' = fetches (+) SetToBag({[owner |-> "init", event |-> "none",
                                                           userId |-> SessionUser(r.s)]})
                      /\ initpc' = "fetchProfile"
                      /\ UNCHANGED authLoading
                 ELSE /\ authLoading' = FALSE
                      /\ initpc' = "done"
                      /\ UNCHANGED fetches
  /\ UNCHANGED <<mounted, authEvents, soCalls>>
  /\ UNCHANGED <<version, sopc, profile, signOutLoading, lastSignOutAttempt, soResult,
                 localStorage, sessionStorage, remote, race, soTimer, winner, storageStep>>
  /\ UNCHANGED <<qvars, frvars, dgvars, clvars, hmvars, cevars, ccvars, pbvars>>

(* the onAuthStateChange callback is invoked with (event, session): to its  *)
(* end, or to await fetchProfile(...)                                       *)
AuthStateChange ==
  /\ authEvents < MaxAuthEvents
  /\ authEvents' = authEvents + 1
  /\ \E c \in AuthChanges :
       IF ~mounted
         THEN UNCHANGED <<user, session, profile, connectionError, authLoading, fetches>>
         ELSE /\ connectionError' = JsNull
              /\ session' = c.session
              /\ user' = UserOf(c.session)
              /\ IF c.session # "null"
                   THEN /\ fetches' = fetches (+) SetToBag({[owner |-> "event", event |-> c.event,
                                                             userId |-> SessionUser(c.session)]})
                        /\ UNCHANGED <<profile, authLoading>>
                   ELSE /\ profile' = "null"
                        /\ authLoading' = FALSE
                        /\ UNCHANGED fetches
  /\ UNCHANGED <<mounted, initpc, soCalls>>
  /\ UNCHANGED <<version, sopc, signOutLoading, lastSignOutAttempt, soResult,
                 localStorage, sessionStorage, remote, race, soTimer, winner, storageStep>>
  /\ UNCHANGED <<qvars, frvars, dgvars, clvars, hmvars, cevars, ccvars, pbvars>>

(* database.getProfile(userId) of a fetchProfile call in flight settles:    *)
(* fetchProfile sets the profile and whoever awaited it goes on to its end  *)
FetchProfileSettles ==
  /\ \E f \in BagToSet(fetches), outcome \in GetProfileOutcomes :
       /\ fetches' = fetches (-) SetToBag({f})
       /\ profile' = IF f.owner = "event" /\ f.event = "SIGNED_OUT"
                       THEN "null"
                       ELSE FetchedProfile(f.userId, outcome)
       /\ initpc' = IF f.owner = "init" THEN "done" ELSE initpc
  /\ authLoading' = FALSE
  /\ UNCHANGED <<mounted, authEvents, soCalls>>
  /\ UNCHANGED <<version, sopc, user, session, signOutLoading, connectionError,
                 lastSignOutAttempt, soResult, localStorage, sessionStorage, remote,
                 race, soTimer, winner, storageStep>>
  /\ UNCHANGED <<qvars, frvars, dgvars, clvars, hmvars, cevars, ccvars, pbvars>>

(* a signOut() call is made: steps 1 and 2 and the remote call, up to the   *)
(* await; the storage step goes through here (SpecSignOut has it throw)     *)
SignOutCalled ==
  /\ \E i \in SignOutIds :
       /\ soCalls[i] = "idle"
       /\ \A j \in SignOutIds : j < i => soCalls[j] # "idle"
       /\ soCalls' = [soCalls EXCEPT ![i] = "awaiting"]
  /\ signOutLoading' = TRUE
  /\ connectionError' = JsNull
  /\ ClearLocalState
  /\ ClearStorage("ok")
  /\ UNCHANGED <<mounted, authLoading, initpc, fetches, authEvents>>
  /\ UNCHANGED <<version, sopc, lastSignOutAttempt, soResult, remote, race, soTimer, winner>>
  /\ UNCHANGED <<qvars, frvars, dgvars, clvars, hmvars, cevars, ccvars, pbvars>>

(* the Promise.race a signOut() call awaits settles: the call goes on to    *)
(* its return and its finally block                                         *)
SignOutReturns ==
  /\ \E i \in SignOutIds, p \in SignOutSettlements :
       /\ soCalls[i] = "awaiting"
       /\ IF p.state = "fulfilled"
            THEN Completed /\ UNCHANGED connectionError
            ELSE IF InnerCatchThrows(p.error)
              THEN ErrorRecovery
              ELSE Completed /\ connectionError' = ApiErrorMessage(p.error)
       /\ soCalls' = [soCalls EXCEPT ![i] = soResult'.stage]
  /\ signOutLoading' = FALSE
  /\ UNCHANGED <<mounted, authLoading, initpc, fetches, authEvents>>
  /\ UNCHANGED <<version, sopc, sessionStorage, remote, race, soTimer, winner, storageStep>>
  /\ UNCHANGED <<qvars, frvars, dgvars, clvars, hmvars, cevars, ccvars, pbvars>>

NextAuth ==
  \/ Unmount \/ GetSessionSettles \/ AuthStateChange \/ FetchProfileSettles
  \/ SignOutCalled \/ SignOutReturns

(* nothing is in flight *)
AllSettled ==
  /\ initpc = "done" /\ fetches = EmptyBag
  /\ \A i \in SignOutIds : soCalls[i] # "awaiting"

(* C24: once a signOut() call has returned and initializeAuth, the          *)
(* callbacks and every fetchProfile() have settled, user = null implies     *)
(* profile = null.                                                          *)
C24_NoStaleProfile ==
  (AllSettled /\ (\E i \in SignOutIds : soCalls[i] \notin {"idle", "awaiting"})
     /\ user = "null") => profile = "null"

(* C25: user is null exactly when session is null, and a non-null user is   *)
(* the user of the session.                                                 *)
C25_UserSessionInStep ==
  /\ (user = "null") <=> (session = "null")
  /\ session # "null" => user = SessionUser(session)

(* signed in by an event, signed out, signed in again by another event    *)
C25_Witness ==
  /\ session = "sB" /\ user = "uB" /\ authEvents = 2
  /\ \E i \in SignOutIds : soCalls[i] = "completed"
  /\ lastSignOutAttempt.set

(* C27: signOutLoading is true exactly while a signOut() call is in        *)
(* progress.                                                               *)
C27_LoadingTracksActivity ==
  signOutLoading <=> (\E i \in SignOutIds : soCalls[i] = "awaiting")

----------------------------------------------------------------------------
(* Initial states and specifications: each specification runs one part of  *)
(* the program and leaves the others at rest.                               *)

InitQuery ==
  /\ qpc = "idle"
  /\ maxRetries \in 0..MaxRetriesBound
  /\ attempt = 1
  /\ lastError = ErrUndefined
  /\ result = NoResult
  /\ timer = 0
  /\ invocations = 0
  /\ inFlight = 0
  /\ opHung = FALSE
  /\ delays = <<>>
  /\ history = <<>>
  /\ lastCause = JsUndef
  /\ lastFailure = NoFailure
  \* no signOut call, no page activity
  /\ version = "race" /\ sopc = "idle"
  /\ user = "null" /\ session = "null" /\ profile = "null"
  /\ signOutLoading = FALSE /\ connectionError = JsNull
  /\ lastSignOutAttempt = NoAttempt /\ soResult = NoSignOutResult
  /\ localStorage = {} /\ sessionStorage = {}
  /\ remote = NoPromise /\ race = NoPromise /\ soTimer = "none" /\ winner = "none"
  /\ storageStep = "none"
  /\ networkStatus = "limited" /\ frpc = 0 /\ loading = TRUE
  /\ retrying = FALSE /\ fetchError = JsNull /\ routes = "empty"
  /\ frCaught = ErrUndefined /\ getRoutesCalls = 0 /\ fetchRuns = 0
  /\ navigatorOnLine = TRUE /\ envUrl = "ok" /\ envKey = TRUE /\ dgpc = "idle"
  /\ dgResult = NoDiagnosis /\ dgFetches = 0 /\ dgRuns = 0
  /\ clpc = "idle" /\ clUser = FALSE /\ clLocal = <<>> /\ clSession = <<>>
  /\ cli = 0 /\ clRemoved = <<>> /\ isClearing = FALSE /\ isComplete = FALSE
  /\ healthStatus = "healthy" /\ lastHealthCheck = "null" /\ healthListeners = <<>>
  /\ hmpc = "idle" /\ hmIdx = 0 /\ hmIsHealthy = FALSE /\ hmReturn = NoReturn
  /\ hmInvoked = [c \in Callbacks |-> 0] /\ hmStayed = {} /\ hmThrew = {}
  /\ hmMutations = 0 /\ hmHandles = {} /\ hmGone = {} /\ hmLastOp = NoOp
  /\ cepc = "idle" /\ ceInput = ErrUndefined /\ ceOutcome = "none"
  /\ ceOutput = ErrUndefined
  /\ calls = [i \in CallIds |-> IdleCall(1)]
  /\ probes = [p \in ProbeIds |-> IdleProbe] /\ probeDone = <<>>
  /\ mounted = TRUE /\ authLoading = TRUE /\ initpc = "done" /\ fetches = EmptyBag
  /\ authEvents = 0 /\ soCalls = [i \in SignOutIds |-> "idle"]

SpecQuery == InitQuery /\ [][NextQuery]_vars

InitSignOut ==
  /\ version \in {"race", "manual", "plain"}
  /\ sopc = "idle"
  /\ \E u \in {"null", "u1"} :
       /\ user = u
       /\ session = IF u = "null" THEN "null" ELSE "s1"
       /\ profile \in IF u = "null" THEN {"null"} ELSE {"null", "p1"}
  /\ signOutLoading = FALSE
  /\ connectionError = JsNull
  /\ lastSignOutAttempt = NoAttempt
  /\ soResult = NoSignOutResult
  /\ localStorage \in SUBSET LocalKeys
  /\ sessionStorage \in SUBSET SessionKeys
  /\ remote = NoPromise
  /\ race = NoPromise
  /\ soTimer = "none"
  /\ winner = "none"
  /\ storageStep = "none"
  \* no query, no page activity
  /\ qpc = "idle" /\ maxRetries = 3 /\ attempt = 1 /\ lastError = ErrUndefined
  /\ result = NoResult /\ timer = 0 /\ invocations = 0 /\ inFlight = 0
  /\ opHung = FALSE /\ delays = <<>> /\ history = <<>> /\ lastCause = JsUndef
  /\ lastFailure = NoFailure
  /\ networkStatus = "limited" /\ frpc = 0 /\ loading = TRUE
  /\ retrying = FALSE /\ fetchError = JsNull /\ routes = "empty"
  /\ frCaught = ErrUndefined /\ getRoutesCalls = 0 /\ fetchRuns = 0
  /\ navigatorOnLine = TRUE /\ envUrl = "ok" /\ envKey = TRUE /\ dgpc = "idle"
  /\ dgResult = NoDiagnosis /\ dgFetches = 0 /\ dgRuns = 0
  /\ clpc = "idle" /\ clUser = FALSE /\ clLocal = <<>> /\ clSession = <<>>
  /\ cli = 0 /\ clRemoved = <<>> /\ isClearing = FALSE /\ isComplete = FALSE
  /\ healthStatus = "healthy" /\ lastHealthCheck = "null" /\ healthListeners = <<>>
  /\ hmpc = "idle" /\ hmIdx = 0 /\ hmIsHealthy = FALSE /\ hmReturn = NoReturn
  /\ hmInvoked = [c \in Callbacks |-> 0] /\ hmStayed = {} /\ hmThrew = {}
  /\ hmMutations = 0 /\ hmHandles = {} /\ hmGone = {} /\ hmLastOp = NoOp
  /\ cepc = "idle" /\ ceInput = ErrUndefined /\ ceOutcome = "none"
  /\ ceOutput = ErrUndefined
  /\ calls = [i \in CallIds |-> IdleCall(1)]
  /\ probes = [p \in ProbeIds |-> IdleProbe] /\ probeDone = <<>>
  /\ mounted = TRUE /\ authLoading = TRUE /\ initpc = "done" /\ fetches = EmptyBag
  /\ authEvents = 0 /\ soCalls = [i \in SignOutIds |-> "idle"]

SpecSignOut == InitSignOut /\ [][NextSignOut]_vars

InitOffline ==
  /\ networkStatus \in {"limited", "offline"}
  /\ frpc = 0
  /\ loading = TRUE
  /\ retrying = FALSE
  /\ fetchError = JsNull
  /\ routes = "empty"
  /\ frCaught = ErrUndefined
  /\ getRoutesCalls = 0
  /\ fetchRuns = 0
  /\ navigatorOnLine \in BOOLEAN
  /\ envUrl \in {"missing", "malformed", "wrongHost", "ok"}
  /\ envKey \in BOOLEAN
  /\ dgpc = "idle"
  /\ dgResult = NoDiagnosis
  /\ dgFetches = 0
  /\ dgRuns = 0
  \* no query, no signOut call, no cleaner
  /\ clpc = "idle" /\ clUser = FALSE /\ clLocal = <<>> /\ clSession = <<>>
  /\ cli = 0 /\ clRemoved = <<>> /\ isClearing = FALSE /\ isComplete = FALSE
  /\ healthStatus = "healthy" /\ lastHealthCheck = "null" /\ healthListeners = <<>>
  /\ hmpc = "idle" /\ hmIdx = 0 /\ hmIsHealthy = FALSE /\ hmReturn = NoReturn
  /\ hmInvoked = [c \in Callbacks |-> 0] /\ hmStayed = {} /\ hmThrew = {}
  /\ hmMutations = 0 /\ hmHandles = {} /\ hmGone = {} /\ hmLastOp = NoOp
  /\ cepc = "idle" /\ ceInput = ErrUndefined /\ ceOutcome = "none"
  /\ ceOutput = ErrUndefined
  /\ qpc = "idle" /\ maxRetries = 3 /\ attempt = 1 /\ lastError = ErrUndefined
  /\ result = NoResult /\ timer = 0 /\ invocations = 0 /\ inFlight = 0
  /\ opHung = FALSE /\ delays = <<>> /\ history = <<>> /\ lastCause = JsUndef
  /\ lastFailure = NoFailure
  /\ version = "race" /\ sopc = "idle"
  /\ user = "null" /\ session = "null" /\ profile = "null"
  /\ signOutLoading = FALSE /\ connectionError = JsNull
  /\ lastSignOutAttempt = NoAttempt /\ soResult = NoSignOutResult
  /\ localStorage = {} /\ sessionStorage = {}
  /\ remote = NoPromise /\ race = NoPromise /\ soTimer = "none" /\ winner = "none"
  /\ storageStep = "none"
  /\ calls = [i \in CallIds |-> IdleCall(1)]
  /\ probes = [p \in ProbeIds |-> IdleProbe] /\ probeDone = <<>>
  /\ mounted = TRUE /\ authLoading = TRUE /\ initpc = "done" /\ fetches = EmptyBag
  /\ authEvents = 0 /\ soCalls = [i \in SignOutIds |-> "idle"]

SpecOffline == InitOffline /\ [][NextOffline]_vars

InitCleaner ==
  /\ clpc = "idle"
  /\ clUser \in BOOLEAN
  /\ clLocal \in KeyLists(CleanerLocalKeys, MaxKeys)
  /\ clSession \in KeyLists(CleanerSessionKeys, MaxKeys)
  /\ cli = 0
  /\ clRemoved = <<>>
  /\ isClearing = FALSE
  /\ isComplete = FALSE
  \* no query, no signOut call, no page activity
  /\ qpc = "idle" /\ maxRetries = 3 /\ attempt = 1 /\ lastError = ErrUndefined
  /\ result = NoResult /\ timer = 0 /\ invocations = 0 /\ inFlight = 0
  /\ opHung = FALSE /\ delays = <<>> /\ history = <<>> /\ lastCause = JsUndef
  /\ lastFailure = NoFailure
  /\ version = "race" /\ sopc = "idle"
  /\ user = "null" /\ session = "null" /\ profile = "null"
  /\ signOutLoading = FALSE /\ connectionError = JsNull
  /\ lastSignOutAttempt = NoAttempt /\ soResult = NoSignOutResult
  /\ localStorage = {} /\ sessionStorage = {}
  /\ remote = NoPromise /\ race = NoPromise /\ soTimer = "none" /\ winner = "none"
  /\ storageStep = "none"
  /\ networkStatus = "limited" /\ frpc = 0 /\ loading = TRUE
  /\ retrying = FALSE /\ fetchError = JsNull /\ routes = "empty"
  /\ frCaught = ErrUndefined /\ getRoutesCalls = 0 /\ fetchRuns = 0
  /\ navigatorOnLine = TRUE /\ envUrl = "ok" /\ envKey = TRUE /\ dgpc = "idle"
  /\ dgResult = NoDiagnosis /\ dgFetches = 0 /\ dgRuns = 0
  /\ healthStatus = "healthy" /\ lastHealthCheck = "null" /\ healthListeners = <<>>
  /\ hmpc = "idle" /\ hmIdx = 0 /\ hmIsHealthy = FALSE /\ hmReturn = NoReturn
  /\ hmInvoked = [c \in Callbacks |-> 0] /\ hmStayed = {} /\ hmThrew = {}
  /\ hmMutations = 0 /\ hmHandles = {} /\ hmGone = {} /\ hmLastOp = NoOp
  /\ cepc = "idle" /\ ceInput = ErrUndefined /\ ceOutcome = "none"
  /\ ceOutput = ErrUndefined
  /\ calls = [i \in CallIds |-> IdleCall(1)]
  /\ probes = [p \in ProbeIds |-> IdleProbe] /\ probeDone = <<>>
  /\ mounted = TRUE /\ authLoading = TRUE /\ initpc = "done" /\ fetches = EmptyBag
  /\ authEvents = 0 /\ soCalls = [i \in SignOutIds |-> "idle"]

SpecCleaner == InitCleaner /\ [][NextCleaner]_vars

InitMonitor ==
  /\ healthStatus = "healthy"
  /\ lastHealthCheck = "null"
  /\ healthListeners = <<>>
  /\ hmpc = "idle"
  /\ hmIdx = 0
  /\ hmIsHealthy = FALSE
  /\ hmReturn = NoReturn
  /\ hmInvoked = [c \in Callbacks |-> 0]
  /\ hmStayed = {}
  /\ hmThrew = {}
  /\ hmMutations = 0
  /\ hmHandles = {}
  /\ hmGone = {}
  /\ hmLastOp = NoOp
  \* no query, no signOut call, no page activity, no cleaner
  /\ qpc = "idle" /\ maxRetries = 3 /\ attempt = 1 /\ lastError = ErrUndefined
  /\ result = NoResult /\ timer = 0 /\ invocations = 0 /\ inFlight = 0
  /\ opHung = FALSE /\ delays = <<>> /\ history = <<>> /\ lastCause = JsUndef
  /\ lastFailure = NoFailure
  /\ version = "race" /\ sopc = "idle"
  /\ user = "null" /\ session = "null" /\ profile = "null"
  /\ signOutLoading = FALSE /\ connectionError = JsNull
  /\ lastSignOutAttempt = NoAttempt /\ soResult = NoSignOutResult
  /\ localStorage = {} /\ sessionStorage = {}
  /\ remote = NoPromise /\ race = NoPromise /\ soTimer = "none" /\ winner = "none"
  /\ storageStep = "none"
  /\ networkStatus = "limited" /\ frpc = 0 /\ loading = TRUE
  /\ retrying = FALSE /\ fetchError = JsNull /\ routes = "empty"
  /\ frCaught = ErrUndefined /\ getRoutesCalls = 0 /\ fetchRuns = 0
  /\ navigatorOnLine = TRUE /\ envUrl = "ok" /\ envKey = TRUE /\ dgpc = "idle"
  /\ dgResult = NoDiagnosis /\ dgFetches = 0 /\ dgRuns = 0
  /\ clpc = "idle" /\ clUser = FALSE /\ clLocal = <<>> /\ clSession = <<>>
  /\ cli = 0 /\ clRemoved = <<>> /\ isClearing = FALSE /\ isComplete = FALSE
  /\ cepc = "idle" /\ ceInput = ErrUndefined /\ ceOutcome = "none"
  /\ ceOutput = ErrUndefined
  /\ calls = [i \in CallIds |-> IdleCall(1)]
  /\ probes = [p \in ProbeIds |-> IdleProbe] /\ probeDone = <<>>
  /\ mounted = TRUE /\ authLoading = TRUE /\ initpc = "done" /\ fetches = EmptyBag
  /\ authEvents = 0 /\ soCalls = [i \in SignOutIds |-> "idle"]

SpecMonitor == InitMonitor /\ [][NextMonitor]_vars

InitClassify ==
  /\ cepc = "idle"
  /\ ceInput \in ErrorObjects \cup {ErrPrimitive, ErrUndefined}
  /\ ceOutcome = "none"
  /\ ceOutput = ErrUndefined
  \* nothing else runs
  /\ qpc = "idle" /\ maxRetries = 3 /\ attempt = 1 /\ lastError = ErrUndefined
  /\ result = NoResult /\ timer = 0 /\ invocations = 0 /\ inFlight = 0
  /\ opHung = FALSE /\ delays = <<>> /\ history = <<>> /\ lastCause = JsUndef
  /\ lastFailure = NoFailure
  /\ version = "race" /\ sopc = "idle"
  /\ user = "null" /\ session = "null" /\ profile = "null"
  /\ signOutLoading = FALSE /\ connectionError = JsNull
  /\ lastSignOutAttempt = NoAttempt /\ soResult = NoSignOutResult
  /\ localStorage = {} /\ sessionStorage = {}
  /\ remote = NoPromise /\ race = NoPromise /\ soTimer = "none" /\ winner = "none"
  /\ storageStep = "none"
  /\ networkStatus = "limited" /\ frpc = 0 /\ loading = TRUE
  /\ retrying = FALSE /\ fetchError = JsNull /\ routes = "empty"
  /\ frCaught = ErrUndefined /\ getRoutesCalls = 0 /\ fetchRuns = 0
  /\ navigatorOnLine = TRUE /\ envUrl = "ok" /\ envKey = TRUE /\ dgpc = "idle"
  /\ dgResult = NoDiagnosis /\ dgFetches = 0 /\ dgRuns = 0
  /\ clpc = "idle" /\ clUser = FALSE /\ clLocal = <<>> /\ clSession = <<>>
  /\ cli = 0 /\ clRemoved = <<>> /\ isClearing = FALSE /\ isComplete = FALSE
  /\ healthStatus = "healthy" /\ lastHealthCheck = "null" /\ healthListeners = <<>>
  /\ hmpc = "idle" /\ hmIdx = 0 /\ hmIsHealthy = FALSE /\ hmReturn = NoReturn
  /\ hmInvoked = [c \in Callbacks |-> 0] /\ hmStayed = {} /\ hmThrew = {}
  /\ hmMutations = 0 /\ hmHandles = {} /\ hmGone = {} /\ hmLastOp = NoOp
  /\ calls = [i \in CallIds |-> IdleCall(1)]
  /\ probes = [p \in ProbeIds |-> IdleProbe] /\ probeDone = <<>>
  /\ mounted = TRUE /\ authLoading = TRUE /\ initpc = "done" /\ fetches = EmptyBag
  /\ authEvents = 0 /\ soCalls = [i \in SignOutIds |-> "idle"]

SpecClassify == InitClassify /\ [][NextClassify]_vars

InitCalls ==
  /\ calls \in [CallIds -> {IdleCall(m) : m \in 1..MaxCallRetries}]
  \* nothing else runs
  /\ qpc = "idle" /\ maxRetries = 3 /\ attempt = 1 /\ lastError = ErrUndefined
  /\ result = NoResult /\ timer = 0 /\ invocations = 0 /\ inFlight = 0
  /\ opHung = FALSE /\ delays = <<>> /\ history = <<>> /\ lastCause = JsUndef
  /\ lastFailure = NoFailure
  /\ version = "race" /\ sopc = "idle"
  /\ user = "null" /\ session = "null" /\ profile = "null"
  /\ signOutLoading = FALSE /\ connectionError = JsNull
  /\ lastSignOutAttempt = NoAttempt /\ soResult = NoSignOutResult
  /\ localStorage = {} /\ sessionStorage = {}
  /\ remote = NoPromise /\ race = NoPromise /\ soTimer = "none" /\ winner = "none"
  /\ storageStep = "none"
  /\ networkStatus = "limited" /\ frpc = 0 /\ loading = TRUE
  /\ retrying = FALSE /\ fetchError = JsNull /\ routes = "empty"
  /\ frCaught = ErrUndefined /\ getRoutesCalls = 0 /\ fetchRuns = 0
  /\ navigatorOnLine = TRUE /\ envUrl = "ok" /\ envKey = TRUE /\ dgpc = "idle"
  /\ dgResult = NoDiagnosis /\ dgFetches = 0 /\ dgRuns = 0
  /\ clpc = "idle" /\ clUser = FALSE /\ clLocal = <<>> /\ clSession = <<>>
  /\ cli = 0 /\ clRemoved = <<>> /\ isClearing = FALSE /\ isComplete = FALSE
  /\ healthStatus = "healthy" /\ lastHealthCheck = "null" /\ healthListeners = <<>>
  /\ hmpc = "idle" /\ hmIdx = 0 /\ hmIsHealthy = FALSE /\ hmReturn = NoReturn
  /\ hmInvoked = [c \in Callbacks |-> 0] /\ hmStayed = {} /\ hmThrew = {}
  /\ hmMutations = 0 /\ hmHandles = {} /\ hmGone = {} /\ hmLastOp = NoOp
  /\ cepc = "idle" /\ ceInput = ErrUndefined /\ ceOutcome = "none"
  /\ ceOutput = ErrUndefined
  /\ probes = [p \in ProbeIds |-> IdleProbe] /\ probeDone = <<>>
  /\ mounted = TRUE /\ authLoading = TRUE /\ initpc = "done" /\ fetches = EmptyBag
  /\ authEvents = 0 /\ soCalls = [i \in SignOutIds |-> "idle"]

SpecCalls == InitCalls /\ [][NextCalls]_vars

InitProbes ==
  /\ probes = [p \in ProbeIds |-> IdleProbe]
  /\ probeDone = <<>>
  /\ healthStatus = "healthy"
  /\ lastHealthCheck = "null"
  /\ healthListeners = <<>>
  /\ hmpc = "idle" /\ hmIdx = 0 /\ hmIsHealthy = FALSE /\ hmReturn = NoReturn
  /\ hmInvoked = [c \in Callbacks |-> 0] /\ hmStayed = {} /\ hmThrew = {}
  /\ hmMutations = 0 /\ hmHandles = {} /\ hmGone = {} /\ hmLastOp = NoOp
  \* nothing else runs
  /\ qpc = "idle" /\ maxRetries = 3 /\ attempt = 1 /\ lastError = ErrUndefined
  /\ result = NoResult /\ timer = 0 /\ invocations = 0 /\ inFlight = 0
  /\ opHung = FALSE /\ delays = <<>> /\ history = <<>> /\ lastCause = JsUndef
  /\ lastFailure = NoFailure
  /\ version = "race" /\ sopc = "idle"
  /\ user = "null" /\ session = "null" /\ profile = "null"
  /\ signOutLoading = FALSE /\ connectionError = JsNull
  /\ lastSignOutAttempt = NoAttempt /\ soResult = NoSignOutResult
  /\ localStorage = {} /\ sessionStorage = {}
  /\ remote = NoPromise /\ race = NoPromise /\ soTimer = "none" /\ winner = "none"
  /\ storageStep = "none"
  /\ networkStatus = "limited" /\ frpc = 0 /\ loading = TRUE
  /\ retrying = FALSE /\ fetchError = JsNull /\ routes = "empty"
  /\ frCaught = ErrUndefined /\ getRoutesCalls = 0 /\ fetchRuns = 0
  /\ navigatorOnLine = TRUE /\ envUrl = "ok" /\ envKey = TRUE /\ dgpc = "idle"
  /\ dgResult = NoDiagnosis /\ dgFetches = 0 /\ dgRuns = 0
  /\ clpc = "idle" /\ clUser = FALSE /\ clLocal = <<>> /\ clSession = <<>>
  /\ cli = 0 /\ clRemoved = <<>> /\ isClearing = FALSE /\ isComplete = FALSE
  /\ cepc = "idle" /\ ceInput = ErrUndefined /\ ceOutcome = "none"
  /\ ceOutput = ErrUndefined
  /\ calls = [i \in CallIds |-> IdleCall(1)]
  /\ mounted = TRUE /\ authLoading = TRUE /\ initpc = "done" /\ fetches = EmptyBag
  /\ authEvents = 0 /\ soCalls = [i \in SignOutIds |-> "idle"]

SpecProbes == InitProbes /\ [][NextProbes]_vars

InitAuth ==
  /\ mounted = TRUE
  /\ authLoading = TRUE
  /\ initpc = "getSession"
  /\ fetches = EmptyBag
  /\ authEvents = 0
  /\ soCalls = [i \in SignOutIds |-> "idle"]
  /\ version = "race" /\ sopc = "idle"
  /\ user = "null" /\ session = "null" /\ profile = "null"
  /\ signOutLoading = FALSE /\ connectionError = JsNull
  /\ lastSignOutAttempt = NoAttempt /\ soResult = NoSignOutResult
  /\ localStorage = {} /\ sessionStorage = {}
  /\ remote = NoPromise /\ race = NoPromise /\ soTimer = "none" /\ winner = "none"
  /\ storageStep = "none"
  \* nothing else runs
  /\ qpc = "idle" /\ maxRetries = 3 /\ attempt = 1 /\ lastError = ErrUndefined
  /\ result = NoResult /\ timer = 0 /\ invocations = 0 /\ inFlight = 0
  /\ opHung = FALSE /\ delays = <<>> /\ history = <<>> /\ lastCause = JsUndef
  /\ lastFailure = NoFailure
  /\ networkStatus = "limited" /\ frpc = 0 /\ loading = TRUE
  /\ retrying = FALSE /\ fetchError = JsNull /\ routes = "empty"
  /\ frCaught = ErrUndefined /\ getRoutesCalls = 0 /\ fetchRuns = 0
  /\ navigatorOnLine = TRUE /\ envUrl = "ok" /\ envKey = TRUE /\ dgpc = "idle"
  /\ dgResult = NoDiagnosis /\ dgFetches = 0 /\ dgRuns = 0
  /\ clpc = "idle" /\ clUser = FALSE /\ clLocal = <<>> /\ clSession = <<>>
  /\ cli = 0 /\ clRemoved = <<>> /\ isClearing = FALSE /\ isComplete = FALSE
  /\ healthStatus = "healthy" /\ lastHealthCheck = "null" /\ healthListeners = <<>>
  /\ hmpc = "idle" /\ hmIdx = 0 /\ hmIsHealthy = FALSE /\ hmReturn = NoReturn
  /\ hmInvoked = [c \in Callbacks |-> 0] /\ hmStayed = {} /\ hmThrew = {}
  /\ hmMutations = 0 /\ hmHandles = {} /\ hmGone = {} /\ hmLastOp = NoOp
  /\ cepc = "idle" /\ ceInput = ErrUndefined /\ ceOutcome = "none"
  /\ ceOutput = ErrUndefined
  /\ calls = [i \in CallIds |-> IdleCall(1)]
  /\ probes = [p \in ProbeIds |-> IdleProbe] /\ probeDone = <<>>

SpecAuth == InitAuth /\ [][NextAuth]_vars

=============================================================================
